---- MODULE Spec2Model ----
(***************************************************************************)
(* Model of the GOPM rules engine of src/nxs_gopm_rules.py: the MGT        *)
(* reference tables and lookup_mgt (the spec's resolve_mgt), the activity  *)
(* breakdown tables and lookup_activity_breakdown, the delivery table and  *)
(* lookup_delivery_before_std_hours.                                       *)
(*                                                                         *)
(* State: the caller's current call and its outcome, the module-level      *)
(* dicts the lookups read (tables), and the calls of a sequence of         *)
(* queries with their outcomes (log), and the calls that concurrent        *)
(* callers have in progress (threads).                                     *)
(*                                                                         *)
(* Representation of Python values:                                       *)
(*  - a caller-supplied str is a sequence of pieces: a piece is either a   *)
(*    run of whitespace (" ") or a run of non-whitespace text written in   *)
(*    one letter case ("jed", "JED").  str.strip() drops the whitespace    *)
(*    pieces at both ends, str.upper() maps every piece to its upper-case  *)
(*    form, and Text() joins the pieces into the key that is compared      *)
(*    with the table keys.                                                 *)
(*  - an 'HH:MM' str is the pair <<HH, MM>> of the numbers it spells.      *)
(*  - an MGTCell is tagged with what isinstance(cell, tuple) answers.      *)
(*  - destination_station = None and "" are both the empty sequence: the   *)
(*    code tests the argument only for truth (line 201).                   *)
(***************************************************************************)
EXTENDS Integers, Sequences, FiniteSets, TLC

VARIABLES call, outcome, tables, log, threads

vars == <<call, outcome, tables, log, threads>>

---------------------------------------------------------------------------
(* Python str helpers *)

Whitespace == {" "}

\* str.upper() on one piece: lower-case pieces map to their upper-case
\* spelling, everything else (upper-case text, digits, whitespace) is kept.
UpperPiece(p) ==
    CASE p = "turnaround" -> "TURNAROUND"
      [] p = "transit"    -> "TRANSIT"
      [] p = "dom-intl"   -> "DOM-INTL"
      [] p = "jed"        -> "JED"
      [] p = "jfk"        -> "JFK"
      [] p = "a321/a320"  -> "A321/A320"
      [] OTHER            -> p

upper(s) == [i \in 1..Len(s) |-> UpperPiece(s[i])]

RECURSIVE lstrip(_)
lstrip(s) ==
    IF s # <<>> /\ Head(s) \in Whitespace THEN lstrip(Tail(s)) ELSE s

RECURSIVE rstrip(_)
rstrip(s) ==
    IF s # <<>> /\ s[Len(s)] \in Whitespace
    THEN rstrip(SubSeq(s, 1, Len(s) - 1))
    ELSE s

\* variant: only leading whitespace removed
strip_LeftOnly(s) == lstrip(s)

strip(s) == rstrip(lstrip(s))

\* the str a sequence of pieces spells
RECURSIVE Text(_)
Text(s) == IF s = <<>> THEN "" ELSE Head(s) \o Text(Tail(s))

---------------------------------------------------------------------------
(* Helpers, lines 33-53 *)

\* 'HH:MM' -> total minutes
_to_minutes_from_hhmm(hhmm) == hhmm[1] * 60 + hhmm[2]

\* variant: the hour and minute arithmetic exchanged
_to_hhmm_from_minutes_Swapped(total_minutes) ==
    LET t == IF total_minutes < 0 THEN 0 ELSE total_minutes
    IN  <<t % 60, t \div 60>>

\* total minutes -> 'HH:MM'
_to_hhmm_from_minutes(total_minutes) ==
    LET t == IF total_minutes < 0 THEN 0 ELSE total_minutes
    IN  <<t \div 60, t % 60>>

\* MGTCell = 'HH:MM' or ('HH:MM', 'HH:MM_SA')
Single(hhmm)   == [is_tuple |-> FALSE, cell |-> <<hhmm>>]
Pair(std, sa)  == [is_tuple |-> TRUE,  cell |-> <<std, sa>>]

\* variant: the elements of a pair exchanged
_pick_mgt_cell_Exchanged(c, is_security_alert_station) ==
    IF c.is_tuple
    THEN (IF is_security_alert_station THEN c.cell[1] ELSE c.cell[2])
    ELSE c.cell[1]

_pick_mgt_cell(c, is_security_alert_station) ==
    IF c.is_tuple
    THEN (IF is_security_alert_station THEN c.cell[2] ELSE c.cell[1])
    ELSE c.cell[1]

---------------------------------------------------------------------------
(* 13.16.3 Aircraft Minimum Ground Time tables, lines 65-124 *)

TURNAROUND_MGT ==
    "B777-368/B787-10" :> (
        "DOM-DOM"   :> ("JED" :> Single(<<1,10>>) @@ "RUH" :> Single(<<1,10>>) @@ "DMM" :> Single(<<1,5>>)
                        @@ "MED" :> Single(<<1,5>>) @@ "OTHER_DOM_STN" :> Single(<<1,0>>))
     @@ "DOM-INTL"  :> ("JED" :> Single(<<1,20>>) @@ "RUH" :> Single(<<1,20>>) @@ "DMM" :> Single(<<1,15>>)
                        @@ "MED" :> Single(<<1,15>>))
     @@ "INTL-DOM"  :> ("JED" :> Single(<<1,30>>) @@ "RUH" :> Single(<<1,30>>) @@ "DMM" :> Single(<<1,25>>)
                        @@ "MED" :> Single(<<1,25>>))
     @@ "INTL-INTL" :> ("JED" :> Single(<<1,35>>) @@ "RUH" :> Single(<<1,35>>) @@ "DMM" :> Single(<<1,30>>)
                        @@ "MED" :> Single(<<1,30>>)
                        @@ "INT_STNS" :> Pair(<<1,25>>, <<1,40>>)
                        @@ "LONG_HAUL_STN" :> Pair(<<1,30>>, <<1,45>>)
                        @@ "UK" :> Single(<<1,40>>)))
 @@ "A330/B787-9" :> (
        "DOM-DOM"   :> ("JED" :> Single(<<1,5>>) @@ "RUH" :> Single(<<1,5>>) @@ "DMM" :> Single(<<0,55>>)
                        @@ "MED" :> Single(<<0,55>>) @@ "OTHER_DOM_STN" :> Single(<<0,50>>))
     @@ "DOM-INTL"  :> ("JED" :> Single(<<1,10>>) @@ "RUH" :> Single(<<1,10>>) @@ "DMM" :> Single(<<1,0>>)
                        @@ "MED" :> Single(<<1,0>>))
     @@ "INTL-DOM"  :> ("JED" :> Single(<<1,20>>) @@ "RUH" :> Single(<<1,20>>) @@ "DMM" :> Single(<<1,10>>)
                        @@ "MED" :> Single(<<1,10>>))
     @@ "INTL-INTL" :> ("JED" :> Single(<<1,25>>) @@ "RUH" :> Single(<<1,25>>) @@ "DMM" :> Single(<<1,15>>)
                        @@ "MED" :> Single(<<1,15>>)
                        @@ "INT_STNS" :> Pair(<<1,15>>, <<1,30>>)
                        @@ "LONG_HAUL_STN" :> Pair(<<1,20>>, <<1,35>>)
                        @@ "UK" :> Single(<<1,30>>)))
 @@ "A321/A320" :> (
        "DOM-DOM"   :> ("JED" :> Single(<<0,45>>) @@ "RUH" :> Single(<<0,45>>) @@ "DMM" :> Single(<<0,40>>)
                        @@ "MED" :> Single(<<0,40>>) @@ "OTHER_DOM_STN" :> Single(<<0,40>>))
     @@ "DOM-INTL"  :> ("JED" :> Single(<<0,50>>) @@ "RUH" :> Single(<<0,50>>) @@ "DMM" :> Single(<<0,45>>)
                        @@ "MED" :> Single(<<0,45>>) @@ "OTHER_DOM_STN" :> Single(<<0,45>>))
     @@ "INTL-DOM"  :> ("JED" :> Single(<<0,55>>) @@ "RUH" :> Single(<<0,55>>) @@ "DMM" :> Single(<<0,50>>)
                        @@ "MED" :> Single(<<0,50>>) @@ "OTHER_DOM_STN" :> Single(<<0,50>>))
     @@ "INTL-INTL" :> ("JED" :> Single(<<1,0>>) @@ "RUH" :> Single(<<1,0>>) @@ "DMM" :> Single(<<0,55>>)
                        @@ "MED" :> Single(<<0,55>>)
                        @@ "INT_STNS" :> Pair(<<0,55>>, <<1,5>>)))

TRANSIT_MGT ==
    "B777-368/B787-10" :> (
        "DOM-DOM"   :> ("JED" :> Single(<<1,5>>) @@ "RUH" :> Single(<<1,5>>) @@ "DMM" :> Single(<<1,0>>)
                        @@ "MED" :> Single(<<1,0>>) @@ "AHB_TUU" :> Single(<<0,55>>)
                        @@ "OTHER_DOM_STN" :> Single(<<0,50>>))
     @@ "DOM-INTL"  :> ("JED" :> Single(<<1,15>>) @@ "RUH" :> Single(<<1,15>>) @@ "DMM" :> Single(<<1,0>>)
                        @@ "MED" :> Single(<<1,0>>))
     @@ "INTL-DOM"  :> ("JED" :> Single(<<0,55>>) @@ "RUH" :> Single(<<0,55>>) @@ "DMM" :> Single(<<0,40>>)
                        @@ "MED" :> Single(<<0,40>>))
     @@ "INTL-INTL" :> ("INT_STNS" :> Pair(<<1,0>>, <<1,15>>) @@ "LHR" :> Single(<<1,0>>)))
 @@ "A330/B787-9" :> (
        "DOM-DOM"   :> ("JED" :> Single(<<1,0>>) @@ "RUH" :> Single(<<1,0>>) @@ "DMM" :> Single(<<0,45>>)
                        @@ "MED" :> Single(<<0,45>>) @@ "AHB_TUU" :> Single(<<0,55>>)
                        @@ "OTHER_DOM_STN" :> Single(<<0,50>>))
     @@ "DOM-INTL"  :> ("JED" :> Single(<<1,10>>) @@ "RUH" :> Single(<<1,10>>) @@ "DMM" :> Single(<<0,45>>)
                        @@ "MED" :> Single(<<0,45>>))
     @@ "INTL-DOM"  :> ("JED" :> Single(<<0,45>>) @@ "RUH" :> Single(<<0,45>>) @@ "DMM" :> Single(<<0,35>>)
                        @@ "MED" :> Single(<<0,35>>))
     @@ "INTL-INTL" :> ("INT_STNS" :> Pair(<<1,0>>, <<1,15>>) @@ "LHR" :> Single(<<1,0>>)))
 @@ "A321/A320" :> (
        "DOM-DOM"   :> ("JED" :> Single(<<0,40>>) @@ "RUH" :> Single(<<0,40>>) @@ "DMM" :> Single(<<0,30>>)
                        @@ "MED" :> Single(<<0,30>>) @@ "AHB_TUU" :> Single(<<0,35>>)
                        @@ "OTHER_DOM_STN" :> Single(<<0,35>>))
     @@ "DOM-INTL"  :> ("JED" :> Single(<<0,40>>) @@ "RUH" :> Single(<<0,40>>) @@ "DMM" :> Single(<<0,30>>)
                        @@ "MED" :> Single(<<0,30>>))
     @@ "INTL-DOM"  :> ("JED" :> Single(<<0,30>>) @@ "RUH" :> Single(<<0,30>>) @@ "DMM" :> Single(<<0,25>>)
                        @@ "MED" :> Single(<<0,25>>))
     @@ "INTL-INTL" :> ("INT_STNS" :> Single(<<0,30>>)))

\* 13.16.3.3 Scheduled Operations Mixed Flights (MGT), lines 127-143: an
\* informational table no lookup reads; its cells are free text
MIXED_FLIGHTS_MGT ==
    "INTL-DOM_INBOUND_JED_RUH_DMM_MED" :>
        ("B777-368/B787-10" :> "01:15" @@ "A330/B787-9" :> "01:00")
    @@ "DOM-INTL_OUTBOUND_JED" :>
        ("B777-368/B787-10" :> "01:15 / 01:45 USA" @@ "A330/B787-9" :> "01:10 / 01:30 USA")
    @@ "DOM-INTL_OUTBOUND_RUH_DMM_MED" :>
        ("B777-368/B787-10" :> "01:00 / 01:45 USA" @@ "A330/B787-9" :> "00:50 / 01:30 USA")

\* Hint constants, lines 147-158
LOCAL_TOWING_ADD_MINUTES == 20

TURNAROUND_MIN_TO_USA_MINUTES == 170

TURNAROUND_MIN_TO_KAN_MINUTES == 120

TURNAROUND_MIN_TO_ALL_USA_STATIONS_MINUTES == 120

TURNAROUND_MIN_TO_SSH_MINUTES == 75

LONG_HAUL_STATIONS == {"MNL", "CAN", "YYZ", "IAD", "LAX", "JFK", "KUL", "CGK", "SIN"}

USA_STATIONS_IN_HINT_LIST == {"YYZ", "IAD", "LAX", "JFK"}

---------------------------------------------------------------------------
(* Public MGT lookup, lines 164-285 *)

\* Python's None; a normalised str is upper-case and never equals it
None == "None"

\* truth value of an Optional[str]: None and '' are false
Truthy(v) == v # None /\ v # ""

\* the exceptions lookup_mgt raises, with the text of their message
ValueError(msg) == [status |-> "ValueError", message |-> msg]

\* variant: every lookup miss reported with one generic message
KeyError_Generic(msg) == [status |-> "KeyError", message |-> <<"not found">>]

KeyError(msg) == [status |-> "KeyError", message |-> msg]

MGTLookupResult(operation, aircraft_group, movement, station_key, base_mgt, adjusted_mgt, applied_rules) ==
    [status         |-> "ok",
     operation      |-> operation,
     aircraft_group |-> aircraft_group,
     movement       |-> movement,
     station_key    |-> station_key,
     base_mgt       |-> base_mgt,
     adjusted_mgt   |-> adjusted_mgt,
     applied_rules  |-> applied_rules]

TowingRule == "Local towing rule: +20 minutes at JED-T1/RUH for DOM-INTL or INTL-DOM"

UsaRule == "Turnaround destination minimum: USA => 02:50"

UsaStationsRule == "Turnaround destination minimum: USA stations (JFK/LAX/IAD/YYZ) => 02:00"

KanRule == "Turnaround destination minimum: KAN => 02:00"

SshRule == "Turnaround destination minimum: SSH => 01:15 (Security/Baggage Identification)"

LongHaulRule == "Long-haul station category applied (LONG_HAUL_STN)"

MixedFlightsNote == "Note: Mixed flights MGT uses SV aircraft type (see MIXED_FLIGHTS_MGT)"

\* The running state of the overlay chain: the locals adjusted_minutes and
\* applied of lookup_mgt.
Running(adjusted_minutes, applied) ==
    [adjusted_minutes |-> adjusted_minutes, applied |-> applied]

\* variant: the minimum is assigned without the comparison
RaiseTo_Assign(run, min_required, rule) ==
    Running(min_required, Append(run.applied, rule))

\* variant: the comparison is <= instead of <
RaiseTo_OrEqual(run, min_required, rule) ==
    IF run.adjusted_minutes <= min_required
    THEN Running(min_required, Append(run.applied, rule))
    ELSE run

\* "if adjusted_minutes < X: adjusted_minutes = X; applied.append(rule)"
RaiseTo(run, min_required, rule) ==
    IF run.adjusted_minutes < min_required
    THEN Running(min_required, Append(run.applied, rule))
    ELSE run

\* variant: the station test left out
TowingApplies_AnyStation(apply_local_towing_rule, movement, station_key) ==
    /\ apply_local_towing_rule
    /\ movement \in {"DOM-INTL", "INTL-DOM"}

\* variant: the movement test left out
TowingApplies_AnyMovement(apply_local_towing_rule, movement, station_key) ==
    /\ apply_local_towing_rule
    /\ station_key \in {"JED", "RUH", "JED-T1"}

\* line 228: the condition of the local towing rule
TowingApplies(apply_local_towing_rule, movement, station_key) ==
    /\ apply_local_towing_rule
    /\ movement \in {"DOM-INTL", "INTL-DOM"}
    /\ station_key \in {"JED", "RUH", "JED-T1"}

\* lines 227-230
ApplyTowing(run, apply_local_towing_rule, movement, station_key) ==
    IF TowingApplies(apply_local_towing_rule, movement, station_key)
    THEN Running(run.adjusted_minutes + LOCAL_TOWING_ADD_MINUTES,
                 Append(run.applied, TowingRule))
    ELSE run

\* variant: the SSH branch left out
ApplyDestinationMinimum_NoSsh(run, dest) ==
    IF dest = "USA"
    THEN RaiseTo(run, TURNAROUND_MIN_TO_USA_MINUTES, UsaRule)
    ELSE IF dest \in USA_STATIONS_IN_HINT_LIST
    THEN RaiseTo(run, TURNAROUND_MIN_TO_ALL_USA_STATIONS_MINUTES, UsaStationsRule)
    ELSE IF dest = "KAN"
    THEN RaiseTo(run, TURNAROUND_MIN_TO_KAN_MINUTES, KanRule)
    ELSE run

\* lines 235-257: the if/elif chain of destination minimums
ApplyDestinationMinimum(run, dest) ==
    IF dest = "USA"
    THEN RaiseTo(run, TURNAROUND_MIN_TO_USA_MINUTES, UsaRule)
    ELSE IF dest \in USA_STATIONS_IN_HINT_LIST
    THEN RaiseTo(run, TURNAROUND_MIN_TO_ALL_USA_STATIONS_MINUTES, UsaStationsRule)
    ELSE IF dest = "KAN"
    THEN RaiseTo(run, TURNAROUND_MIN_TO_KAN_MINUTES, KanRule)
    ELSE IF dest = "SSH"
    THEN RaiseTo(run, TURNAROUND_MIN_TO_SSH_MINUTES, SshRule)
    ELSE run

\* variant: the long-haul cell read without the security-alert flag
ApplyLongHaul_StandardOnly(run, row, dest, is_security_alert_station) ==
    IF dest \in LONG_HAUL_STATIONS /\ "LONG_HAUL_STN" \in DOMAIN row
    THEN RaiseTo(run, _to_minutes_from_hhmm(_pick_mgt_cell(row["LONG_HAUL_STN"], FALSE)),
                 LongHaulRule)
    ELSE run

\* variant: the destination test left out
ApplyLongHaul_AnyDestination(run, row, dest, is_security_alert_station) ==
    IF "LONG_HAUL_STN" \in DOMAIN row
    THEN RaiseTo(run, _to_minutes_from_hhmm(_pick_mgt_cell(row["LONG_HAUL_STN"],
                                                          is_security_alert_station)),
                 LongHaulRule)
    ELSE run

\* variant: the long-haul entry appended whether or not the value was raised
ApplyLongHaul_AlwaysTraced(run, row, dest, is_security_alert_station) ==
    IF dest \in LONG_HAUL_STATIONS /\ "LONG_HAUL_STN" \in DOMAIN row
    THEN LET lh == _to_minutes_from_hhmm(_pick_mgt_cell(row["LONG_HAUL_STN"],
                                                        is_security_alert_station))
         IN  Running(IF run.adjusted_minutes < lh THEN lh ELSE run.adjusted_minutes,
                     Append(run.applied, LongHaulRule))
    ELSE run

\* lines 261-268: the long-haul station category
ApplyLongHaul(run, row, dest, is_security_alert_station) ==
    IF dest \in LONG_HAUL_STATIONS /\ "LONG_HAUL_STN" \in DOMAIN row
    THEN LET lh_cell    == row["LONG_HAUL_STN"]
             lh_hhmm    == _pick_mgt_cell(lh_cell, is_security_alert_station)
             lh_minutes == _to_minutes_from_hhmm(lh_hhmm)
         IN  RaiseTo(run, lh_minutes, LongHaulRule)
    ELSE run

\* variant: the destination minimum step left out
ApplyDestinationRules_LongHaulOnly(run, op, row, dest, is_security_alert_station) ==
    IF op = "TURNAROUND" /\ Truthy(dest)
    THEN ApplyLongHaul(run, row, dest, is_security_alert_station)
    ELSE run

\* variant: the operation test left out
ApplyDestinationRules_AnyOperation(run, op, row, dest, is_security_alert_station) ==
    IF Truthy(dest)
    THEN ApplyLongHaul(ApplyDestinationMinimum(run, dest),
                       row, dest, is_security_alert_station)
    ELSE run

\* variant: the long-haul step taken before the destination floors
ApplyDestinationRules_LongHaulFirst(run, op, row, dest, is_security_alert_station) ==
    IF op = "TURNAROUND" /\ Truthy(dest)
    THEN ApplyDestinationMinimum(ApplyLongHaul(run, row, dest, is_security_alert_station),
                                 dest)
    ELSE run

\* lines 232-268: the TURNAROUND destination constraints
ApplyDestinationRules(run, op, row, dest, is_security_alert_station) ==
    IF op = "TURNAROUND" /\ Truthy(dest)
    THEN ApplyLongHaul(ApplyDestinationMinimum(run, dest),
                       row, dest, is_security_alert_station)
    ELSE run

\* variant: the note appended for TURNAROUND only
AppendMixedFlightsNote_TurnaroundOnly(run, op) ==
    IF op \in {"TURNAROUND"}
    THEN Running(run.adjusted_minutes, Append(run.applied, MixedFlightsNote))
    ELSE run

\* lines 272-275
AppendMixedFlightsNote(run, op) ==
    IF op \in {"TURNAROUND", "TRANSIT"}
    THEN Running(run.adjusted_minutes, Append(run.applied, MixedFlightsNote))
    ELSE run

\* variant: the aircraft group validated before the operation
lookup_mgt_GroupFirst(operation, aircraft_group, movement_arg, station, destination_station, is_security_alert_station, apply_local_towing_rule) ==
    LET op          == Text(upper(strip(operation)))
        movement    == Text(upper(strip(movement_arg)))
        station_key == Text(upper(strip(station)))
        dest        == IF destination_station # <<>>
                       THEN Text(upper(strip(destination_station)))
                       ELSE None
        ac          == Text(aircraft_group)
        table       == IF op = "TURNAROUND" THEN tables.TURNAROUND_MGT
                                              ELSE tables.TRANSIT_MGT
    IN
    IF ac \notin DOMAIN tables.TURNAROUND_MGT \cup DOMAIN tables.TRANSIT_MGT
    THEN KeyError(<<"Unknown aircraft_group: ", ac>>)
    ELSE IF op \notin {"TURNAROUND", "TRANSIT"}
    THEN ValueError(<<"Unsupported operation: ", Text(operation)>>)
    ELSE IF ac \notin DOMAIN table
    THEN KeyError(<<"Unknown aircraft_group: ", ac>>)
    ELSE IF movement \notin DOMAIN table[ac]
    THEN KeyError(<<"Unknown movement '", movement, "' for aircraft_group '", ac, "'">>)
    ELSE LET row == table[ac][movement] IN
    IF station_key \notin DOMAIN row
    THEN KeyError(<<"Unknown station '", station_key, "' for op=", op,
                    ", aircraft_group=", ac, ", movement=", movement>>)
    ELSE LET base_cell == row[station_key]
             base_hhmm == _pick_mgt_cell(base_cell, is_security_alert_station)
             run0 == Running(_to_minutes_from_hhmm(base_hhmm), <<>>)
             run1 == ApplyTowing(run0, apply_local_towing_rule, movement, station_key)
             run2 == ApplyDestinationRules(run1, op, row, dest, is_security_alert_station)
             adjusted_hhmm == _to_hhmm_from_minutes(run2.adjusted_minutes)
             run3 == AppendMixedFlightsNote(run2, op)
         IN  MGTLookupResult(op, ac, movement, station_key,
                             base_hhmm, adjusted_hhmm, run3.applied)

lookup_mgt(operation, aircraft_group, movement_arg, station, destination_station, is_security_alert_station, apply_local_towing_rule) ==
    LET op          == Text(upper(strip(operation)))
        movement    == Text(upper(strip(movement_arg)))
        station_key == Text(upper(strip(station)))
        dest        == IF destination_station # <<>>
                       THEN Text(upper(strip(destination_station)))
                       ELSE None
        ac          == Text(aircraft_group)
        table       == IF op = "TURNAROUND" THEN tables.TURNAROUND_MGT
                                              ELSE tables.TRANSIT_MGT
    IN
    IF op \notin {"TURNAROUND", "TRANSIT"}
    THEN ValueError(<<"Unsupported operation: ", Text(operation)>>)
    ELSE IF ac \notin DOMAIN table
    THEN KeyError(<<"Unknown aircraft_group: ", ac>>)
    ELSE IF movement \notin DOMAIN table[ac]
    THEN KeyError(<<"Unknown movement '", movement, "' for aircraft_group '", ac, "'">>)
    ELSE LET row == table[ac][movement] IN
    IF station_key \notin DOMAIN row
    THEN KeyError(<<"Unknown station '", station_key, "' for op=", op,
                    ", aircraft_group=", ac, ", movement=", movement>>)
    ELSE LET base_cell == row[station_key]
             base_hhmm == _pick_mgt_cell(base_cell, is_security_alert_station)
             run0 == Running(_to_minutes_from_hhmm(base_hhmm), <<>>)
             run1 == ApplyTowing(run0, apply_local_towing_rule, movement, station_key)
             run2 == ApplyDestinationRules(run1, op, row, dest, is_security_alert_station)
             adjusted_hhmm == _to_hhmm_from_minutes(run2.adjusted_minutes)
             run3 == AppendMixedFlightsNote(run2, op)
         IN  MGTLookupResult(op, ac, movement, station_key,
                             base_hhmm, adjusted_hhmm, run3.applied)

---------------------------------------------------------------------------
(* Activity breakdowns (lines 287-799).  A Python value of a breakdown row  *)
(* is tagged with its type: float (every authored float is a whole number  *)
(* of minutes or hours), str, StarValue, dict.  A dict that is iterated or  *)
(* copied is the sequence of its items in insertion order.                 *)

Float(x) == [type |-> "float", value |-> x]

Str(s) == [type |-> "str", value |-> s]

_sv(minutes, resource_count, footnote) == [type |-> "StarValue", minutes |-> minutes, resource_count |-> resource_count, footnote |-> footnote]

Dict(items) == [type |-> "dict", items |-> items]

Item(name, value) == [name |-> name, value |-> value]

B777_TURNAROUND ==
    [operation   |-> "TURNAROUND",
     assumptions |-> <<"100% Load Factor">>,
     notes       |-> <<"Cabin cleaning and galley services are done simultaneously (apply for all aircraft types).">>,
     movements   |->
        "DOM-DOM" :>
            << Item("Blocks IN / Door Opening", Float(1)),
               Item("PAX deplaning", Float(12)),
               Item("Custom Clearance", Str("-")),
               Item("Cabin Cleaning", _sv(12, 20, "*")),
               Item("Galley Service", _sv(17, 2, "**")),
               Item("Cabin Security", Float(5)),
               Item("Passenger Enplaning", Float(26)),
               Item("FNLZTN / Door CLSD", Float(3)),
               Item("BLOCKS OUT", Float(1)),
               Item("Total Ground Time", Float(65)) >>
     @@
        "DOM-INTL" :>
            << Item("Blocks IN / Door Opening", Float(1)),
               Item("PAX deplaning", Float(12)),
               Item("Custom Clearance", Str("-")),
               Item("Cabin Cleaning", Float(20)),
               Item("Galley Service", Float(25)),
               Item("Cabin Security", Float(5)),
               Item("Passenger Enplaning", Float(28)),
               Item("FNLZTN / Door CLSD", Float(3)),
               Item("BLOCKS OUT", Float(1)),
               Item("Total Ground Time", Float(75)) >>
     @@
        "INTL-DOM" :>
            << Item("Blocks IN / Door Opening", Float(1)),
               Item("PAX deplaning", Float(12)),
               Item("Custom Clearance", Float(15)),
               Item("Cabin Cleaning", Float(20)),
               Item("Galley Service", Float(20)),
               Item("Cabin Security", Float(5)),
               Item("Passenger Enplaning", Float(28)),
               Item("FNLZTN / Door CLSD", Float(3)),
               Item("BLOCKS OUT", Float(1)),
               Item("Total Ground Time", Float(85)) >>
     @@
        "INTL-INTL" :>
            << Item("Blocks IN / Door Opening", Float(1)),
               Item("PAX deplaning", Float(12)),
               Item("Custom Clearance", Float(15)),
               Item("Cabin Cleaning", Float(25)),
               Item("Galley Service", Float(25)),
               Item("Cabin Security", Float(5)),
               Item("Passenger Enplaning", Float(28)),
               Item("FNLZTN / Door CLSD", Float(3)),
               Item("BLOCKS OUT", Float(1)),
               Item("Total Ground Time", Float(90)) >>]

B777_TRANSIT ==
    [operation   |-> "TRANSIT",
     assumptions |-> <<"50% Load Factor">>,
     notes       |-> <<>>,
     movements   |->
        "DOM-DOM" :>
            << Item("Blocks IN / Door Opening", Float(1)),
               Item("PAX deplaning", Float(10)),
               Item("Custom Clearance", Str("-")),
               Item("Cabin Cleaning", _sv(15, 20, "*")),
               Item("Galley Service", _sv(20, 2, "**")),
               Item("Cabin Security", Str("-")),
               Item("Passenger Enplaning", Float(25)),
               Item("FNLZTN / Door CLSD", Float(3)),
               Item("BLOCKS OUT", Float(1)),
               Item("Total Ground Time", Float(60)) >>
     @@
        "DOM-INTL" :>
            << Item("Blocks IN / Door Opening", Float(1)),
               Item("PAX deplaning", Str("-")),
               Item("Custom Clearance", Str("-")),
               Item("Cabin Cleaning", Float(20)),
               Item("Galley Service", Float(30)),
               Item("Cabin Security", Str("-")),
               Item("Passenger Enplaning", Float(25)),
               Item("FNLZTN / Door CLSD", Float(3)),
               Item("BLOCKS OUT", Float(1)),
               Item("Total Ground Time", Float(60)) >>
     @@
        "INTL-DOM" :>
            << Item("Blocks IN / Door Opening", Float(1)),
               Item("PAX deplaning", Float(10)),
               Item("Custom Clearance", Str("-")),
               Item("Cabin Cleaning", Float(20)),
               Item("Galley Service", Float(25)),
               Item("Cabin Security", Str("-")),
               Item("Passenger Enplaning", Str("-")),
               Item("FNLZTN / Door CLSD", Float(3)),
               Item("BLOCKS OUT", Float(1)),
               Item("Total Ground Time", Float(40)) >>
     @@
        "INTL-INTL" :>
            << Item("Blocks IN / Door Opening", Str("-")),
               Item("PAX deplaning", Str("-")),
               Item("Custom Clearance", Str("-")),
               Item("Cabin Cleaning", Str("-")),
               Item("Galley Service", Str("-")),
               Item("Cabin Security", Str("-")),
               Item("Passenger Enplaning", Str("-")),
               Item("FNLZTN / Door CLSD", Str("-")),
               Item("BLOCKS OUT", Str("-")),
               Item("Total Ground Time", Str("-")) >>]

A330_TRANSIT ==
    [operation   |-> "TRANSIT",
     assumptions |-> <<"50% Load Factor">>,
     notes       |-> <<>>,
     movements   |->
        "DOM-DOM" :>
            << Item("Blocks IN / Door Opening", Float(1)),
               Item("PAX deplaning", Float(5)),
               Item("Custom Clearance", Str("-")),
               Item("Cabin Cleaning", _sv(15, 15, "*")),
               Item("Galley Service", _sv(18, 2, "**")),
               Item("Cabin Security", Str("-")),
               Item("Passenger Enplaning", Float(17)),
               Item("FNLZTN / Door CLSD", Float(3)),
               Item("BLOCKS OUT", Float(1)),
               Item("Total Ground Time", Float(45)) >>
     @@
        "DOM-INTL" :>
            << Item("Blocks IN / Door Opening", Float(1)),
               Item("PAX deplaning", Str("-")),
               Item("Custom Clearance", Str("-")),
               Item("Cabin Cleaning", Float(18)),
               Item("Galley Service", Float(23)),
               Item("Cabin Security", Str("-")),
               Item("Passenger Enplaning", Float(17)),
               Item("FNLZTN / Door CLSD", Float(3)),
               Item("BLOCKS OUT", Float(1)),
               Item("Total Ground Time", Float(45)) >>
     @@
        "INTL-DOM" :>
            << Item("Blocks IN / Door Opening", Float(1)),
               Item("PAX deplaning", Float(5)),
               Item("Custom Clearance", Str("-")),
               Item("Cabin Cleaning", Float(18)),
               Item("Galley Service", Float(25)),
               Item("Cabin Security", Str("-")),
               Item("Passenger Enplaning", Str("-")),
               Item("FNLZTN / Door CLSD", Float(3)),
               Item("BLOCKS OUT", Float(1)),
               Item("Total Ground Time", Float(35)) >>
     @@
        "INTL-INTL" :>
            << Item("Blocks IN / Door Opening", Str("-")),
               Item("PAX deplaning", Str("-")),
               Item("Custom Clearance", Str("-")),
               Item("Cabin Cleaning", Str("-")),
               Item("Galley Service", Str("-")),
               Item("Cabin Security", Str("-")),
               Item("Passenger Enplaning", Str("-")),
               Item("FNLZTN / Door CLSD", Str("-")),
               Item("BLOCKS OUT", Str("-")),
               Item("Total Ground Time", Str("-")) >>]

A321_TURNAROUND ==
    [operation   |-> "TURNAROUND",
     assumptions |-> <<"100% Load Factor">>,
     notes       |-> <<>>,
     movements   |->
        "DOM-DOM" :>
            << Item("Blocks IN / Door Opening", Float(1)),
               Item("PAX deplaning", Float(8)),
               Item("Custom Clearance", Str("-")),
               Item("Cabin Cleaning", _sv(10, 8, "*")),
               Item("Galley Services", _sv(10, 1, "**")),
               Item("Cabin Security", Float(3)),
               Item("Passenger Enplaning", Float(14)),
               Item("FNLZTN / Door CLSD", Float(3)),
               Item("BLOCKS OUT", Float(1)),
               Item("Total Ground Time", Float(40)) >>
     @@
        "DOM-INTL" :>
            << Item("Blocks IN / Door Opening", Float(1)),
               Item("PAX deplaning", Float(8)),
               Item("Custom Clearance", Str("-")),
               Item("Cabin Cleaning", Float(15)),
               Item("Galley Services", Float(15)),
               Item("Cabin Security", Float(3)),
               Item("Passenger Enplaning", Float(14)),
               Item("FNLZTN / Door CLSD", Float(3)),
               Item("BLOCKS OUT", Float(1)),
               Item("Total Ground Time", Float(45)) >>
     @@
        "INTL-DOM" :>
            << Item("Blocks IN / Door Opening", Float(1)),
               Item("PAX deplaning", Float(8)),
               Item("Custom Clearance", Float(5)),
               Item("Cabin Cleaning", Float(15)),
               Item("Galley Services", Float(15)),
               Item("Cabin Security", Float(3)),
               Item("Passenger Enplaning", Float(14)),
               Item("FNLZTN / Door CLSD", Float(3)),
               Item("BLOCKS OUT", Float(1)),
               Item("Total Ground Time", Float(50)) >>
     @@
        "INTL-INTL" :>
            << Item("Blocks IN / Door Opening", Float(1)),
               Item("PAX deplaning", Float(8)),
               Item("Custom Clearance", Float(5)),
               Item("Cabin Cleaning", Float(20)),
               Item("Galley Services", Float(20)),
               Item("Cabin Security", Float(3)),
               Item("Passenger Enplaning", Float(14)),
               Item("FNLZTN / Door CLSD", Float(3)),
               Item("BLOCKS OUT", Float(1)),
               Item("Total Ground Time", Float(55)) >>]

A321_TRANSIT ==
    [operation   |-> "TRANSIT",
     assumptions |-> <<"50% Load Factor">>,
     notes       |-> <<>>,
     movements   |->
        "DOM-DOM" :>
            << Item("Blocks IN / Door Opening", Float(1)),
               Item("PAX deplaning", Float(4)),
               Item("Custom Clearance", Str("-")),
               Item("Cabin Cleaning", _sv(10, 8, "*")),
               Item("Galley Service", _sv(14, 1, "**")),
               Item("Cabin Security", Str("-")),
               Item("Passenger Enplaning", Float(7)),
               Item("FNLZTN / Door CLSD", Float(3)),
               Item("BLOCKS OUT", Float(1)),
               Item("Total Ground Time", Float(30)) >>
     @@
        "DOM-INTL" :>
            << Item("Blocks IN / Door Opening", Float(1)),
               Item("PAX deplaning", Str("-")),
               Item("Custom Clearance", Str("-")),
               Item("Cabin Cleaning", Float(13)),
               Item("Galley Service", Float(18)),
               Item("Cabin Security", Str("-")),
               Item("Passenger Enplaning", Float(7)),
               Item("FNLZTN / Door CLSD", Float(3)),
               Item("BLOCKS OUT", Float(1)),
               Item("Total Ground Time", Float(30)) >>
     @@
        "INTL-DOM" :>
            << Item("Blocks IN / Door Opening", Float(1)),
               Item("PAX deplaning", Float(4)),
               Item("Custom Clearance", Str("-")),
               Item("Cabin Cleaning", Float(16)),
               Item("Galley Service", Float(16)),
               Item("Cabin Security", Str("-")),
               Item("Passenger Enplaning", Str("-")),
               Item("FNLZTN / Door CLSD", Float(3)),
               Item("BLOCKS OUT", Float(1)),
               Item("Total Ground Time", Float(25)) >>
     @@
        "INTL-INTL" :>
            << Item("Blocks IN / Door Opening", Str("-")),
               Item("PAX deplaning", Str("-")),
               Item("Custom Clearance", Str("-")),
               Item("Cabin Cleaning", Str("-")),
               Item("Galley Service", Str("-")),
               Item("Cabin Security", Str("-")),
               Item("Passenger Enplaning", Str("-")),
               Item("FNLZTN / Door CLSD", Str("-")),
               Item("BLOCKS OUT", Str("-")),
               Item("Total Ground Time", Str("-")) >>]

B757_TURNAROUND ==
    [operation   |-> "TURNAROUND",
     assumptions |-> <<"100% Load Factor">>,
     notes       |-> <<>>,
     movements   |->
        "DOM-DOM" :>
            << Item("Dock Jetty/ open Door", Float(1)),
               Item("PAX Disembarkation", Float(7)),
               Item("ACFT Customs checks", Str("-")),
               Item("ACFT Cleaning", _sv(12, 8, "*")),
               Item("Catering Services", Float(15)),
               Item("Cabin security", Float(3)),
               Item("PAX Embarkation", Float(15)),
               Item("FNLZTN / Door CLSD", Float(3)),
               Item("Pushback", Float(1)),
               Item("Min Ground Time", Float(45)) >>
     @@
        "DOM-INTL" :>
            << Item("Dock Jetty/ open Door", Float(1)),
               Item("PAX Disembarkation", Float(7)),
               Item("ACFT Customs checks", Str("-")),
               Item("ACFT Cleaning", _sv(12, 8, "*")),
               Item("Catering Services", Float(15)),
               Item("Cabin security", Float(3)),
               Item("PAX Embarkation", Float(15)),
               Item("FNLZTN / Door CLSD", Float(3)),
               Item("Pushback", Float(1)),
               Item("Min Ground Time", Float(45)) >>
     @@
        "INTL-DOM" :>
            << Item("Dock Jetty/ open Door", Float(1)),
               Item("PAX Disembarkation", Float(7)),
               Item("ACFT Customs checks", Float(5)),
               Item("ACFT Cleaning", _sv(12, 8, "*")),
               Item("Catering Services", Float(20)),
               Item("Cabin security", Float(3)),
               Item("PAX Embarkation", Float(15)),
               Item("FNLZTN / Door CLSD", Float(3)),
               Item("Pushback", Float(1)),
               Item("Min Ground Time", Float(55)) >>
     @@
        "INTL-INTL" :>
            << Item("Dock Jetty/ open Door", Float(1)),
               Item("PAX Disembarkation", Float(7)),
               Item("ACFT Customs checks", Float(5)),
               Item("ACFT Cleaning", _sv(12, 8, "*")),
               Item("Catering Services", Float(25)),
               Item("Cabin security", Float(3)),
               Item("PAX Embarkation", Float(15)),
               Item("FNLZTN / Door CLSD", Float(3)),
               Item("Pushback", Float(1)),
               Item("Min Ground Time", Float(60)) >>]

B757_TRANSIT ==
    [operation   |-> "TRANSIT",
     assumptions |-> <<"50% Load Factor">>,
     notes       |-> <<>>,
     movements   |->
        "DOM-DOM" :>
            << Item("Dock Jetty/ open Door", Float(1)),
               Item("PAX Disembarkation", Float(7)),
               Item("ACFT Customs checks", Str("-")),
               Item("ACFT Cleaning", _sv(5, 5, "*")),
               Item("Catering Services", Float(12)),
               Item("Cabin security", Str("-")),
               Item("PAX Embarkation", Float(15)),
               Item("FNLZTN / Door CLSD", Float(3)),
               Item("Pushback", Float(1)),
               Item("Min Ground Time", Float(39)) >>
     @@
        "DOM-INTL" :>
            << Item("Dock Jetty/ open Door", Float(1)),
               Item("PAX Disembarkation", Str("-")),
               Item("ACFT Customs checks", Str("-")),
               Item("ACFT Cleaning", _sv(5, 5, "*")),
               Item("Catering Services", Float(12)),
               Item("Cabin security", Str("-")),
               Item("PAX Embarkation", Float(15)),
               Item("FNLZTN / Door CLSD", Float(3)),
               Item("Pushback", Float(1)),
               Item("Min Ground Time", Float(32)) >>
     @@
        "INTL-DOM" :>
            << Item("Dock Jetty/ open Door", Float(1)),
               Item("PAX Disembarkation", Float(7)),
               Item("ACFT Customs checks", Str("-")),
               Item("ACFT Cleaning", _sv(5, 5, "*")),
               Item("Catering Services", Float(15)),
               Item("Cabin security", Str("-")),
               Item("PAX Embarkation", Str("-")),
               Item("FNLZTN / Door CLSD", Float(3)),
               Item("Pushback", Float(1)),
               Item("Min Ground Time", Float(27)) >>
     @@
        "INTL-INTL" :>
            << Item("Dock Jetty/ open Door", Str("-")),
               Item("PAX Disembarkation", Str("-")),
               Item("ACFT Customs checks", Str("-")),
               Item("ACFT Cleaning", Str("-")),
               Item("Catering Services", Str("-")),
               Item("Cabin security", Str("-")),
               Item("PAX Embarkation", Str("-")),
               Item("FNLZTN / Door CLSD", Str("-")),
               Item("Pushback", Str("-")),
               Item("Min Ground Time", Str("-")) >>]

COMBINED_MIXED_FLIGHTS ==
    [operation   |-> "COMBINED_MIXED",
     assumptions |-> <<"100% Load Factor">>,
     notes       |-> <<>>,
     movements   |->
        "N/A" :>
            << Item("B777-368/B787-10", Dict(<< Item("Dock Jetty/ Open Door", Float(1)),
                   Item("PAX Disembarkation", Float(13)),
                   Item("ACFT Customs Checks", Float(7)),
                   Item("ACFT Cleaning", Float(30)),
                   Item("Catering Services", Float(30)),
                   Item("Cabin security", Float(5)),
                   Item("PAX Embarkation", Float(25)),
                   Item("FNLZTN / Door CLSD", Float(3)),
                   Item("Pushback", Float(1)),
                   Item("Min Ground Time", Float(85)) >>)),
               Item("B777-268/A330", Dict(<< Item("Dock Jetty/ Open Door", Float(1)),
                   Item("PAX Disembarkation", Float(10)),
                   Item("ACFT Customs Checks", Float(7)),
                   Item("ACFT Cleaning", Float(28)),
                   Item("Catering Services", Float(28)),
                   Item("Cabin security", Float(5)),
                   Item("PAX Embarkation", Float(20)),
                   Item("FNLZTN / Door CLSD", Float(3)),
                   Item("Pushback", Float(1)),
                   Item("Min Ground Time", Float(75)) >>)),
               Item("A321/A320", Str("N/A")) >>]

ACTIVITY_BREAKDOWNS ==
    "B777-368/B787-10_TURNAROUND" :> B777_TURNAROUND @@
    "B777-368/B787-10_TRANSIT" :> B777_TRANSIT @@
    "A330/B787-9_TRANSIT" :> A330_TRANSIT @@
    "A321/A320_TURNAROUND" :> A321_TURNAROUND @@
    "A321/A320_TRANSIT" :> A321_TRANSIT @@
    "B757_TURNAROUND" :> B757_TURNAROUND @@
    "B757_TRANSIT" :> B757_TRANSIT @@
    "COMBINED_MIXED" :> COMBINED_MIXED_FLIGHTS

AIRCRAFT_DELIVERY_BEFORE_STD_HOURS ==
    "B777-368/B787-10" :> Float(2) @@
    "A300/B787-9" :> Float(2) @@
    "A321/A320" :> Float(1)

\* "name in d" and d[name] for a dict held as its item sequence
HasKey(d, name) == \E i \in DOMAIN d : d[i].name = name

Get(d, name) == d[CHOOSE i \in DOMAIN d : d[i].name = name].value

\* dict(row), list(l): a new container holding the same elements
dict(row) == [i \in DOMAIN row |-> row[i]]

list(l) == [i \in DOMAIN l |-> l[i]]

\* line 775
NoBreakdownError(aircraft_group, op) ==
    KeyError(<<"No activity breakdown found for ", aircraft_group, " / ", op>>)

\* variant: the movement miss reported with the message of the pair miss
NoMovementError_AsNoBreakdown(movement, aircraft_group, op) ==
    KeyError(<<"No activity breakdown found for ", aircraft_group, " / ", op>>)

\* line 779
NoMovementError(movement, aircraft_group, op) ==
    KeyError(<<"No movement '", movement, "' for ", aircraft_group, " / ", op>>)

\* variant: only "Total Ground Time" is looked for
TotalOrMin_TotalOnly(row) ==
    IF HasKey(row, "Total Ground Time") THEN Get(row, "Total Ground Time")
    ELSE Str("-")

\* lines 783-789: the first of the two total fields the row has, else "-"
TotalOrMin(row) ==
    IF HasKey(row, "Total Ground Time") THEN Get(row, "Total Ground Time")
    ELSE IF HasKey(row, "Min Ground Time") THEN Get(row, "Min Ground Time")
    ELSE Str("-")

ActivityBreakdownResult(aircraft_group, operation, movement, activities, total_or_min_ground_time, assumptions, notes) ==
    [status |-> "ok",
     aircraft_group |-> aircraft_group,
     operation |-> operation,
     movement |-> movement,
     activities |-> activities,
     total_or_min_ground_time |-> total_or_min_ground_time,
     assumptions |-> assumptions,
     notes |-> notes]

\* lines 762-799; aircraft_group is used as the caller wrote it
lookup_activity_breakdown(aircraft_group, operation, movement_arg) ==
    LET op       == Text(upper(strip(operation)))
        movement == Text(upper(strip(movement_arg)))
        ac       == Text(aircraft_group)
        key      == ac \o "_" \o op
    IN
    IF key \notin DOMAIN tables.ACTIVITY_BREAKDOWNS
    THEN NoBreakdownError(ac, op)
    ELSE LET blob == tables.ACTIVITY_BREAKDOWNS[key] IN
    IF movement \notin DOMAIN blob.movements
    THEN NoMovementError(movement, ac, op)
    ELSE LET row == blob.movements[movement]
         IN  ActivityBreakdownResult(ac, op, movement, dict(row), TotalOrMin(row),
                                     list(blob.assumptions), list(blob.notes))

---------------------------------------------------------------------------
(* Aircraft delivery before S.T.D (lines 801-821) *)

\* variant: the alias answers with the A321/A320 row
DeliveryAliasRow_A321 == "A321/A320"

\* line 820: the row the project-wide name A330/B787-9 stands for
DeliveryAliasRow == "A300/B787-9"

\* variant: a miss answered with the hours of the alias row
lookup_delivery_before_std_hours_Defaulting(aircraft_group) ==
    LET key == Text(strip(aircraft_group))
    IN  IF key \in DOMAIN tables.AIRCRAFT_DELIVERY_BEFORE_STD_HOURS
        THEN [status |-> "ok", value |-> tables.AIRCRAFT_DELIVERY_BEFORE_STD_HOURS[key]]
        ELSE [status |-> "ok",
              value |-> tables.AIRCRAFT_DELIVERY_BEFORE_STD_HOURS[DeliveryAliasRow]]

\* lines 811-821
lookup_delivery_before_std_hours(aircraft_group) ==
    LET key == Text(strip(aircraft_group))
    IN  IF key \in DOMAIN tables.AIRCRAFT_DELIVERY_BEFORE_STD_HOURS
        THEN [status |-> "ok", value |-> tables.AIRCRAFT_DELIVERY_BEFORE_STD_HOURS[key]]
        ELSE IF key = "A330/B787-9"
        THEN [status |-> "ok",
              value |-> tables.AIRCRAFT_DELIVERY_BEFORE_STD_HOURS[DeliveryAliasRow]]
        ELSE KeyError(<<"No delivery time found for aircraft_group '",
                        Text(aircraft_group), "'">>)

\* variant: a key that missed is stored with zero hours
DeliveryTableAfter_Cached(t, key) == IF key \in DOMAIN t THEN t ELSE (key :> Float(0)) @@ t

\* lines 813-820: the table is read with "in" and [] only, and no statement
\* of the three lookups assigns to a module table
DeliveryTableAfter(t, key) == t

\* the module-level tables as the import leaves them
AuthoredTables ==
    [TURNAROUND_MGT |-> TURNAROUND_MGT,
     TRANSIT_MGT |-> TRANSIT_MGT,
     MIXED_FLIGHTS_MGT |-> MIXED_FLIGHTS_MGT,
     ACTIVITY_BREAKDOWNS |-> ACTIVITY_BREAKDOWNS,
     AIRCRAFT_DELIVERY_BEFORE_STD_HOURS |-> AIRCRAFT_DELIVERY_BEFORE_STD_HOURS]

---------------------------------------------------------------------------
(* The callers' inputs *)

\* the most whitespace pieces put around a value
MaxPad == 1

Spaces(n) == [i \in 1..n |-> " "]

Paddings == { Spaces(n) : n \in 1..MaxPad }

Operations ==
    { <<"TURNAROUND">>, <<"TRANSIT">>, <<"CHARTER">> }
    \cup { pad \o <<"turnaround">> : pad \in Paddings }

AircraftGroups ==
    { <<"B777-368/B787-10">>, <<"A330/B787-9">>, <<"A321/A320">>,
      <<"B757">>, <<"a321/a320">> }
    \cup { pad \o <<"B757">> : pad \in Paddings }

Movements ==
    { <<"DOM-DOM">>, <<"DOM-INTL">>, <<"INTL-DOM">>, <<"INTL-INTL">>, <<"INT-DOM">> }
    \cup { <<"dom-intl">> \o pad : pad \in Paddings }

Stations ==
    { <<"JED">>, <<"RUH">>, <<"DMM">>, <<"MED">>, <<"OTHER_DOM_STN">>,
      <<"AHB_TUU">>, <<"INT_STNS">>, <<"LONG_HAUL_STN">>, <<"UK">>, <<"LHR">>,
      <<"JED-T1">> }
    \cup { pad \o <<"jed">> : pad \in Paddings }

\* <<>> is "no destination supplied"
Destinations ==
    { <<>>, <<"USA">>, <<"KAN">>, <<"SSH">>,
      <<"YYZ">>, <<"IAD">>, <<"LAX">>, <<"JFK">>,
      <<"MNL">>, <<"CAN">>, <<"KUL">>, <<"CGK">>, <<"SIN">>,
      <<"LHR">>, <<" ">> }
    \cup { <<"jfk">> \o pad : pad \in Paddings }

MgtArgs ==
    [operation : Operations, aircraft_group : AircraftGroups,
     movement : Movements, station : Stations,
     destination_station : Destinations,
     is_security_alert_station : BOOLEAN,
     apply_local_towing_rule : BOOLEAN]

\* lookup_mgt applied to an argument record
Resolve(a) ==
    lookup_mgt(a.operation, a.aircraft_group, a.movement, a.station,
               a.destination_station, a.is_security_alert_station,
               a.apply_local_towing_rule)

BreakdownAircraftGroups ==
    AircraftGroups \cup { <<"COMBINED">> } \cup { pad \o <<"B757">> : pad \in Paddings }

BreakdownOperations == Operations \cup { <<"MIXED">> }

BreakdownMovements == Movements \cup { <<"N/A">> }

BreakdownArgs ==
    [aircraft_group : BreakdownAircraftGroups, operation : BreakdownOperations,
     movement : BreakdownMovements]

\* lookup_activity_breakdown applied to an argument record
Breakdown(a) == lookup_activity_breakdown(a.aircraft_group, a.operation, a.movement)

DeliveryArgs ==
    [aircraft_group : AircraftGroups \cup { <<"A300/B787-9">> }
                        \cup { pad \o <<"A330/B787-9">> \o pad : pad \in Paddings }
                        \cup { <<"A321/A320">> \o pad : pad \in Paddings }]

\* lookup_delivery_before_std_hours applied to an argument record
Delivery(a) == lookup_delivery_before_std_hours(a.aircraft_group)

\* the callers that may have a call in progress at the same time
NumCallers == 2

Callers == 1..NumCallers

\* a caller with no call in progress
IdleThread == [pc |-> "idle", fn |-> "none", args |-> <<>>, result |-> [status |-> "none"]]

---------------------------------------------------------------------------
(* The state machine: one caller issuing queries one after another *)

NoCall == [fn |-> "none"]

NoOutcome == [status |-> "none"]

Init ==
    /\ call = NoCall
    /\ outcome = NoOutcome
    /\ tables = AuthoredTables
    /\ log = <<>>
    /\ threads = [c \in Callers |-> IdleThread]

\* one call of lookup_mgt with arguments from A, from its arguments to its
\* return or raise; the caller is between queries when it is made
CallLookupMgt(A) ==
    /\ call = NoCall
    /\ \E a \in A :
        /\ call' = [fn |-> "lookup_mgt", args |-> a]
        /\ outcome' = Resolve(a)
    /\ UNCHANGED <<tables, threads>>

\* one call of lookup_activity_breakdown
CallLookupActivityBreakdown(A) ==
    /\ call = NoCall
    /\ \E a \in A :
        /\ call' = [fn |-> "lookup_activity_breakdown", args |-> a]
        /\ outcome' = Breakdown(a)
    /\ UNCHANGED <<tables, threads>>

\* one call of lookup_delivery_before_std_hours
CallLookupDeliveryBeforeStdHours(A) ==
    /\ call = NoCall
    /\ \E a \in A :
        /\ call' = [fn |-> "lookup_delivery_before_std_hours", args |-> a]
        /\ outcome' = Delivery(a)
        /\ tables' = [tables EXCEPT !.AIRCRAFT_DELIVERY_BEFORE_STD_HOURS =
                          DeliveryTableAfter(@, Text(strip(a.aircraft_group)))]
    /\ UNCHANGED threads

LookupMgt == CallLookupMgt(MgtArgs) /\ UNCHANGED log

LookupActivityBreakdown == CallLookupActivityBreakdown(BreakdownArgs) /\ UNCHANGED log

LookupDeliveryBeforeStdHours == CallLookupDeliveryBeforeStdHours(DeliveryArgs) /\ UNCHANGED log

\* the caller has consumed the outcome and is ready for its next query
Return ==
    /\ call # NoCall
    /\ call' = NoCall
    /\ outcome' = NoOutcome
    /\ UNCHANGED <<tables, log, threads>>

Next ==
    \/ LookupMgt
    \/ LookupActivityBreakdown
    \/ LookupDeliveryBeforeStdHours
    \/ Return

Spec == Init /\ [][Next]_vars

---------------------------------------------------------------------------
(* Vocabulary of the properties: the spec's names for the parts of a call *)

Max(a, b) == IF a < b THEN b ELSE a

Range(s) == { s[i] : i \in DOMAIN s }

\* the query is a lookup_mgt call that returned an MGTLookupResult
MgtOk == call # NoCall /\ call.fn = "lookup_mgt" /\ outcome.status = "ok"

\* base_duration and adjusted_duration of a result, in minutes
BaseDuration(r) == r.base_mgt[1] * 60 + r.base_mgt[2]

AdjustedDuration(r) == r.adjusted_mgt[1] * 60 + r.adjusted_mgt[2]

\* the destination of a query as the resolver reads it ("" when none)
DestinationOf(a) == Text(upper(strip(a.destination_station)))

\* the operation table and the authored row and cell of a result
TableOf(r) == IF r.operation = "TURNAROUND" THEN TURNAROUND_MGT ELSE TRANSIT_MGT

RowOf(r) == TableOf(r)[r.aircraft_group][r.movement]

CellOf(r) == RowOf(r)[r.station_key]

\* the value of an authored cell that applies under the security-alert flag
Applicable(c, sa) == IF c.is_tuple /\ sa THEN c.cell[2] ELSE c.cell[1]

ApplicableMinutes(c, sa) == Applicable(c, sa)[1] * 60 + Applicable(c, sa)[2]

\* the towing condition of the spec (step 2)
TowingCase(a, r) ==
    /\ a.apply_local_towing_rule
    /\ r.movement \in {"DOM-INTL", "INTL-DOM"}
    /\ r.station_key \in {"JED", "RUH"}

UsaSubset == {"YYZ", "IAD", "LAX", "JFK"}

LongHaulSet == {"MNL", "CAN", "YYZ", "IAD", "LAX", "JFK", "KUL", "CGK", "SIN"}

\* the destination floors of the spec (step 3), as a set of (matches, floor)
FloorsOf(d) ==
    { f \in { [dest |-> {"USA"}, floor |-> 170],
              [dest |-> UsaSubset, floor |-> 120],
              [dest |-> {"KAN"}, floor |-> 120],
              [dest |-> {"SSH"}, floor |-> 75] } : d \in f.dest }

\* the long-haul condition of the spec (step 4)
LongHaulCase(a, r) ==
    /\ DestinationOf(a) \in LongHaulSet
    /\ "LONG_HAUL_STN" \in DOMAIN RowOf(r)

LongHaulMinutes(a, r) ==
    ApplicableMinutes(RowOf(r)["LONG_HAUL_STN"], a.is_security_alert_station)

\* the same query with one argument changed
WithFlag(a, sa) == [a EXCEPT !.is_security_alert_station = sa]

WithTowing(a, tow) == [a EXCEPT !.apply_local_towing_rule = tow]

WithDestination(a, d) == [a EXCEPT !.destination_station = d]

---------------------------------------------------------------------------
(* Properties *)

\* the value the spec's ordered chain yields for a successful query
ChainValue(a, r) ==
    LET towed   == BaseDuration(r) + (IF TowingCase(a, r) THEN 20 ELSE 0)
        floors  == IF r.operation = "TURNAROUND"
                   THEN { f.floor : f \in FloorsOf(DestinationOf(a)) }
                   ELSE {}
        floored == IF floors = {} THEN towed
                   ELSE Max(towed, CHOOSE m \in floors : \A n \in floors : n <= m)
    IN  IF LongHaulCase(a, r) THEN Max(floored, LongHaulMinutes(a, r)) ELSE floored

\* C1: for every successful resolve_mgt call, adjusted_duration is the value
\* of the chain towing, destination floor, long-haul elevation applied in
\* that order, each step seeing the value left by the previous one.
C1_AdjustedIsOrderedChain ==
    MgtOk => AdjustedDuration(outcome) = ChainValue(call.args, outcome)

\* a query in which towing and a destination floor both acted
C1_Witness ==
    /\ MgtOk
    /\ outcome.applied_rules = <<TowingRule, SshRule, MixedFlightsNote>>
    /\ BaseDuration(outcome) = 50
    /\ AdjustedDuration(outcome) = 75

\* C2: for every successful resolve_mgt call adjusted_duration >=
\* base_duration >= 0.
C2_AdjustedAtLeastBase ==
    MgtOk => /\ BaseDuration(outcome) >= 0
             /\ AdjustedDuration(outcome) >= BaseDuration(outcome)

\* a query whose base (95) is above the floor of its destination (SSH, 75)
C2_Witness ==
    /\ MgtOk
    /\ DestinationOf(call.args) = "SSH"
    /\ outcome.operation = "TURNAROUND"
    /\ BaseDuration(outcome) = 95
    /\ AdjustedDuration(outcome) = 95

ScenarioA ==
    [operation |-> <<"TURNAROUND">>, aircraft_group |-> <<"A321/A320">>,
     movement |-> <<"DOM-DOM">>, station |-> <<"JED">>,
     destination_station |-> <<>>, is_security_alert_station |-> FALSE,
     apply_local_towing_rule |-> FALSE]

ScenarioB ==
    [operation |-> <<"TURNAROUND">>, aircraft_group |-> <<"B777-368/B787-10">>,
     movement |-> <<"INTL-INTL">>, station |-> <<"INT_STNS">>,
     destination_station |-> <<>>, is_security_alert_station |-> TRUE,
     apply_local_towing_rule |-> FALSE]

\* C3: base_duration is the authored cell for (operation table,
\* aircraft_group, movement, station): of a pair the second element when
\* is_security_alert_station is set and the first when not, of a single value
\* that value; with no destination and no towing flag adjusted_duration
\* equals base_duration; scenario A gives 45/45 and scenario B gives 100.
C3_BaseIsAuthoredCell ==
    MgtOk =>
        LET a == call.args
            c == CellOf(outcome)
        IN  /\ c.is_tuple /\ a.is_security_alert_station
                => outcome.base_mgt = c.cell[2]
            /\ c.is_tuple /\ ~a.is_security_alert_station
                => outcome.base_mgt = c.cell[1]
            /\ ~c.is_tuple => outcome.base_mgt = c.cell[1]
            /\ a.destination_station = <<>> /\ ~a.apply_local_towing_rule
                => AdjustedDuration(outcome) = BaseDuration(outcome)
            /\ a = ScenarioA
                => BaseDuration(outcome) = 45 /\ AdjustedDuration(outcome) = 45
            /\ a = ScenarioB => AdjustedDuration(outcome) = 100

\* scenario B has been resolved: a paired cell read with the flag set
C3_Witness ==
    /\ MgtOk
    /\ call.args = ScenarioB
    /\ CellOf(outcome).is_tuple
    /\ outcome.base_mgt = <<1, 40>>

\* the lookup_mgt outcome of the query made, with one argument changed
Other(a) == Resolve(a)

\* C4 as stated: when the base cell is a single value, the results with
\* is_security_alert_station true and false are identical in base_duration,
\* adjusted_duration and rule trace, for every choice of the other inputs.
C4_FlagUnobservableOnSingleCell ==
    MgtOk /\ ~CellOf(outcome).is_tuple =>
        LET o == Other(WithFlag(call.args, ~call.args.is_security_alert_station))
        IN  /\ o.status = "ok"
            /\ o.base_mgt = outcome.base_mgt
            /\ o.adjusted_mgt = outcome.adjusted_mgt
            /\ o.applied_rules = outcome.applied_rules

\* the long-haul step reads a (standard, security-alert) pair
LongHaulReadsPair(a, r) ==
    /\ r.operation = "TURNAROUND"
    /\ LongHaulCase(a, r)
    /\ RowOf(r)["LONG_HAUL_STN"].is_tuple

\* C4 amended: when the base cell is a single value and the long-haul step
\* does not read a paired LONG_HAUL_STN cell, the results with
\* is_security_alert_station true and false are identical in base_duration,
\* adjusted_duration and rule trace; base_duration is identical in any case.
C4_FlagUnobservableWithoutLongHaulPair ==
    MgtOk /\ ~CellOf(outcome).is_tuple =>
        LET o == Other(WithFlag(call.args, ~call.args.is_security_alert_station))
        IN  /\ o.status = "ok"
            /\ o.base_mgt = outcome.base_mgt
            /\ ~LongHaulReadsPair(call.args, outcome)
                => /\ o.adjusted_mgt = outcome.adjusted_mgt
                   /\ o.applied_rules = outcome.applied_rules

\* a single-valued base cell read with the flag set, for a long-haul
\* destination on a row that has no LONG_HAUL_STN cell
C4_Witness ==
    /\ MgtOk
    /\ ~CellOf(outcome).is_tuple
    /\ call.args.is_security_alert_station
    /\ outcome.operation = "TURNAROUND"
    /\ DestinationOf(call.args) \in LongHaulSet
    /\ "LONG_HAUL_STN" \notin DOMAIN RowOf(outcome)

ScenarioC ==
    [operation |-> <<"TURNAROUND">>, aircraft_group |-> <<"A321/A320">>,
     movement |-> <<"DOM-INTL">>, station |-> <<"JED">>,
     destination_station |-> <<>>, is_security_alert_station |-> FALSE,
     apply_local_towing_rule |-> TRUE]

\* the trace entries of the destination floors, with their floors
FloorRules ==
    { [rule |-> UsaRule, floor |-> 170], [rule |-> UsaStationsRule, floor |-> 120],
      [rule |-> KanRule, floor |-> 120], [rule |-> SshRule, floor |-> 75] }

\* C5: the towing trace entry is present in a successful result if and only
\* if apply_local_towing_rule is set and movement is DOM-INTL or INTL-DOM and
\* station is JED or RUH; when present the running value is base + 20 before
\* any floor is evaluated: a floor entry is in the trace only if base + 20 is
\* below that floor, and with no floor or long-haul entry adjusted is base +
\* 20; scenario C gives base 50, adjusted 70.
C5_TowingEntryIffTowingCase ==
    MgtOk =>
        LET a == call.args
            trace == Range(outcome.applied_rules)
        IN  /\ TowingRule \in trace <=> TowingCase(a, outcome)
            /\ TowingRule \in trace =>
                /\ AdjustedDuration(outcome) >= BaseDuration(outcome) + 20
                /\ \A f \in FloorRules :
                      f.rule \in trace
                         => /\ BaseDuration(outcome) + 20 < f.floor
                            /\ AdjustedDuration(outcome) >= f.floor
                /\ trace = {TowingRule, MixedFlightsNote}
                      => AdjustedDuration(outcome) = BaseDuration(outcome) + 20
            /\ a = ScenarioC
                => /\ BaseDuration(outcome) = 50
                   /\ AdjustedDuration(outcome) = 70
                   /\ TowingRule \in trace

\* towing acted and left a value (110) above the floor of the destination
C5_Witness ==
    /\ MgtOk
    /\ TowingRule \in Range(outcome.applied_rules)
    /\ DestinationOf(call.args) = "SSH"
    /\ SshRule \notin Range(outcome.applied_rules)
    /\ BaseDuration(outcome) = 90
    /\ AdjustedDuration(outcome) = 110

\* C6: for movement = DOM-DOM and every other input for which the lookup
\* succeeds, toggling apply_local_towing_rule never changes
\* adjusted_duration.
C6_TowingScope ==
    MgtOk /\ outcome.movement = "DOM-DOM" =>
        LET o == Other(WithTowing(call.args, ~call.args.apply_local_towing_rule))
        IN  /\ o.status = "ok"
            /\ AdjustedDuration(o) = AdjustedDuration(outcome)

\* a DOM-DOM query at JED with the towing flag set
C6_Witness ==
    /\ MgtOk
    /\ outcome.movement = "DOM-DOM"
    /\ outcome.station_key = "JED"
    /\ call.args.apply_local_towing_rule

ScenarioD ==
    [operation |-> <<"TURNAROUND">>, aircraft_group |-> <<"A330/B787-9">>,
     movement |-> <<"DOM-DOM">>, station |-> <<"JED">>,
     destination_station |-> <<"SSH">>, is_security_alert_station |-> FALSE,
     apply_local_towing_rule |-> FALSE]

\* C7: for operation = TURNAROUND and a supplied destination,
\* adjusted_duration is at least the floor of every destination predicate
\* that matches (USA 170, USA-station subset 120, KAN 120, SSH 75); scenario
\* D gives base 65, adjusted 75.
C7_AtLeastEveryMatchingFloor ==
    MgtOk /\ outcome.operation = "TURNAROUND" =>
        /\ \A f \in FloorsOf(DestinationOf(call.args)) :
              AdjustedDuration(outcome) >= f.floor
        /\ call.args = ScenarioD
              => BaseDuration(outcome) = 65 /\ AdjustedDuration(outcome) = 75

\* scenario D has been resolved and the SSH floor was applied
C7_Witness ==
    /\ MgtOk
    /\ call.args = ScenarioD
    /\ SshRule \in Range(outcome.applied_rules)

\* C8: for every (TURNAROUND, aircraft_group, movement, station) that
\* resolves and every setting of the two flags, adjusted_duration with
\* destination = USA is >= adjusted_duration with no destination supplied.
C8_UsaAtLeastNoDestination ==
    MgtOk /\ outcome.operation = "TURNAROUND" /\ DestinationOf(call.args) = "USA" =>
        LET o == Other(WithDestination(call.args, <<>>))
        IN  /\ o.status = "ok"
            /\ AdjustedDuration(outcome) >= AdjustedDuration(o)

\* a TURNAROUND query to USA on which towing acted first
C8_Witness ==
    /\ MgtOk
    /\ outcome.operation = "TURNAROUND"
    /\ DestinationOf(call.args) = "USA"
    /\ outcome.applied_rules = <<TowingRule, UsaRule, MixedFlightsNote>>

\* C9: for operation = TRANSIT the result (base_duration, adjusted_duration
\* and rule trace) is the same for every destination value, including none.
C9_TransitIgnoresDestination ==
    MgtOk /\ outcome.operation = "TRANSIT" =>
        \A d \in Destinations :
            LET o == Other(WithDestination(call.args, d))
            IN  /\ o.status = "ok"
                /\ o.base_mgt = outcome.base_mgt
                /\ o.adjusted_mgt = outcome.adjusted_mgt
                /\ o.applied_rules = outcome.applied_rules

\* a TRANSIT query with a destination that has a floor and is long-haul
C9_Witness ==
    /\ MgtOk
    /\ outcome.operation = "TRANSIT"
    /\ DestinationOf(call.args) = "JFK"
    /\ outcome.applied_rules = <<MixedFlightsNote>>

\* C10: whenever the destination is in the long-haul station set and the
\* (aircraft_group, movement) row defines a LONG_HAUL_STN cell,
\* adjusted_duration is at least that cell's applicable value (the
\* security-alert element when the flag is set and the cell is a pair, else
\* the standard value).
C10_AtLeastLongHaulValue ==
    MgtOk /\ LongHaulCase(call.args, outcome) =>
        AdjustedDuration(outcome) >= LongHaulMinutes(call.args, outcome)

\* the long-haul step raised a security-alert query to the pair's second value
C10_Witness ==
    /\ MgtOk
    /\ LongHaulCase(call.args, outcome)
    /\ call.args.is_security_alert_station
    /\ LongHaulRule \in Range(outcome.applied_rules)
    /\ BaseDuration(outcome) = 100
    /\ AdjustedDuration(outcome) = 105

\* the running value when the long-haul step starts: base, towing, floors
BeforeLongHaul(a, r) ==
    LET towed  == BaseDuration(r) + (IF TowingCase(a, r) THEN 20 ELSE 0)
        floors == IF r.operation = "TURNAROUND"
                  THEN { f.floor : f \in FloorsOf(DestinationOf(a)) }
                  ELSE {}
    IN  IF floors = {} THEN towed
        ELSE Max(towed, CHOOSE m \in floors : \A n \in floors : n <= m)

\* C11 as stated: whenever the destination is in the long-haul station set
\* and the row defines a LONG_HAUL_STN cell, the rule trace contains the
\* long-haul entry.
C11_LongHaulEntryInLongHaulCase ==
    MgtOk /\ LongHaulCase(call.args, outcome)
        => LongHaulRule \in Range(outcome.applied_rules)

\* C11 amended: the rule trace contains the long-haul entry if and only if
\* the destination is in the long-haul station set, the row defines a
\* LONG_HAUL_STN cell, and the running value before that step is strictly
\* below the cell's applicable value.
C11_LongHaulEntryIffRaised ==
    MgtOk =>
        (LongHaulRule \in Range(outcome.applied_rules)
            <=> /\ LongHaulCase(call.args, outcome)
                /\ BeforeLongHaul(call.args, outcome)
                      < LongHaulMinutes(call.args, outcome))

\* a long-haul destination on a row with a LONG_HAUL_STN cell (90) whose
\* base (100, UK) is already above it: no entry
C11_Witness ==
    /\ MgtOk
    /\ LongHaulCase(call.args, outcome)
    /\ DestinationOf(call.args) = "MNL"
    /\ LongHaulMinutes(call.args, outcome) = 90
    /\ BaseDuration(outcome) = 100
    /\ outcome.applied_rules = <<MixedFlightsNote>>

\* the destination floors with their predicate, floor and trace entry
FloorTable ==
    { [dest |-> {"USA"}, floor |-> 170, rule |-> UsaRule],
      [dest |-> UsaSubset, floor |-> 120, rule |-> UsaStationsRule],
      [dest |-> {"KAN"}, floor |-> 120, rule |-> KanRule],
      [dest |-> {"SSH"}, floor |-> 75, rule |-> SshRule] }

\* C12: the entry of a destination floor is in the trace if and only if
\* operation is TURNAROUND, the destination matches that floor's predicate,
\* and the running value before that step (base plus any towing addition)
\* was strictly below the floor.
C12_FloorEntryIffApplied ==
    MgtOk =>
        \A f \in FloorTable :
            f.rule \in Range(outcome.applied_rules)
                <=> /\ outcome.operation = "TURNAROUND"
                    /\ DestinationOf(call.args) \in f.dest
                    /\ BaseDuration(outcome)
                         + (IF TowingCase(call.args, outcome) THEN 20 ELSE 0) < f.floor

\* the running value equals the floor of the destination: no entry
C12_Witness ==
    /\ MgtOk
    /\ outcome.operation = "TURNAROUND"
    /\ DestinationOf(call.args) = "SSH"
    /\ BaseDuration(outcome) = 75
    /\ ~TowingCase(call.args, outcome)
    /\ outcome.applied_rules = <<MixedFlightsNote>>

\* the step a trace entry belongs to
StepOf(rule) ==
    CASE rule = TowingRule       -> 1
      [] rule \in { f.rule : f \in FloorTable } -> 2
      [] rule = LongHaulRule     -> 3
      [] rule = MixedFlightsNote -> 4
      [] OTHER                   -> 0

\* C13: in every successful result the trace is ordered as the steps fire:
\* towing entry, then destination-floor entry, then long-haul entry, and the
\* mixed-flights note is present exactly once and is the last entry, for
\* both TURNAROUND and TRANSIT.
C13_TraceOrdered ==
    MgtOk =>
        LET tr == outcome.applied_rules
        IN  /\ \A i \in DOMAIN tr : StepOf(tr[i]) \in 1..4
            /\ \A i, j \in DOMAIN tr : i < j => StepOf(tr[i]) < StepOf(tr[j])
            /\ Len(tr) >= 1
            /\ tr[Len(tr)] = MixedFlightsNote
            /\ Cardinality({ i \in DOMAIN tr : tr[i] = MixedFlightsNote }) = 1

\* a TRANSIT query on which towing acted: towing entry, then the note
C13_Witness ==
    /\ MgtOk
    /\ outcome.operation = "TRANSIT"
    /\ outcome.applied_rules = <<TowingRule, MixedFlightsNote>>

ScenarioF ==
    [operation |-> <<"TRANSIT">>, aircraft_group |-> <<"A321/A320">>,
     movement |-> <<"INTL-INTL">>, station |-> <<"LHR">>,
     destination_station |-> <<>>, is_security_alert_station |-> FALSE,
     apply_local_towing_rule |-> FALSE]

\* a lookup_mgt call that raised
MgtFailed ==
    call # NoCall /\ call.fn = "lookup_mgt" /\ outcome.status \notin {"ok", "none"}

\* the error kind: the head of the message, which names the dimension
KindOf(o) == o.message[1]

UnknownAircraftGroup == "Unknown aircraft_group: "

UnknownMovement == "Unknown movement '"

UnknownStation == "Unknown station '"

\* the authored MGT table of a normalised operation
AuthoredTable(op) == IF op = "TURNAROUND" THEN TURNAROUND_MGT ELSE TRANSIT_MGT

\* C14: a failing composite-key lookup fails with one of three distinct kinds
\* the caller can tell apart: unknown aircraft group, unknown movement for
\* that aircraft group, unknown station for that (aircraft group, movement);
\* scenario F fails with the unknown-station kind.
C14_ThreeDistinctKinds ==
    MgtFailed =>
        LET a  == call.args
            op == Text(upper(strip(a.operation)))
            ac == Text(a.aircraft_group)
            mv == Text(upper(strip(a.movement)))
            st == Text(upper(strip(a.station)))
            tb == AuthoredTable(op)
        IN  op \in {"TURNAROUND", "TRANSIT"} =>
              /\ outcome.status = "KeyError"
              /\ KindOf(outcome) \in {UnknownAircraftGroup, UnknownMovement, UnknownStation}
              /\ KindOf(outcome) = UnknownAircraftGroup <=> ac \notin DOMAIN tb
              /\ KindOf(outcome) = UnknownMovement
                    <=> ac \in DOMAIN tb /\ mv \notin DOMAIN tb[ac]
              /\ KindOf(outcome) = UnknownStation
                    <=> /\ ac \in DOMAIN tb
                        /\ mv \in DOMAIN tb[ac]
                        /\ st \notin DOMAIN tb[ac][mv]
              /\ a = ScenarioF => KindOf(outcome) = UnknownStation

\* scenario F has failed with the unknown-station kind
C14_Witness ==
    /\ MgtFailed
    /\ call.args = ScenarioF
    /\ outcome.status = "KeyError"
    /\ KindOf(outcome) = UnknownStation

---------------------------------------------------------------------------
(* The breakdown and delivery resolvers *)

BreakdownCall == call # NoCall /\ call.fn = "lookup_activity_breakdown"

BreakdownOk == BreakdownCall /\ outcome.status = "ok"

DeliveryCall == call # NoCall /\ call.fn = "lookup_delivery_before_std_hours"

\* the (aircraft_group, operation) key and the movement key of a query
BreakdownKey(a) == Text(a.aircraft_group) \o "_" \o Text(upper(strip(a.operation)))

BreakdownMovement(a) == Text(upper(strip(a.movement)))

\* the query names an authored breakdown row
BreakdownAuthored(a) ==
    /\ BreakdownKey(a) \in DOMAIN ACTIVITY_BREAKDOWNS
    /\ BreakdownMovement(a) \in DOMAIN ACTIVITY_BREAKDOWNS[BreakdownKey(a)].movements

AuthoredRow(a) == ACTIVITY_BREAKDOWNS[BreakdownKey(a)].movements[BreakdownMovement(a)]

\* the query names an authored MGT cell of a supported operation
MgtAuthored(a) ==
    LET op == Text(upper(strip(a.operation)))
        ac == Text(a.aircraft_group)
        mv == Text(upper(strip(a.movement)))
        st == Text(upper(strip(a.station)))
    IN  /\ op \in {"TURNAROUND", "TRANSIT"}
        /\ ac \in DOMAIN AuthoredTable(op)
        /\ mv \in DOMAIN AuthoredTable(op)[ac]
        /\ st \in DOMAIN AuthoredTable(op)[ac][mv]

DeliveryKey(a) == Text(strip(a.aircraft_group))

\* an outcome that is an error and nothing else
IsError(o) ==
    /\ o.status \in {"KeyError", "ValueError"}
    /\ DOMAIN o = {"status", "message"}

ScenarioE ==
    [aircraft_group |-> <<"A321/A320">>, operation |-> <<"TURNAROUND">>,
     movement |-> <<"DOM-DOM">>]

\* C16: for every authored (aircraft_group, operation, movement) the result
\* carries the authored row unchanged and in authored order, a resourced
\* value keeping its minutes and resource count, and the total equals the
\* value the row stores under "Total Ground Time" or, when that field is
\* absent, under "Min Ground Time"; scenario E gives total 40.0 and Cabin
\* Cleaning = 10.0 minutes with 8 resources.
C16_AuthoredRowAndTotal ==
    BreakdownOk =>
        LET row == AuthoredRow(call.args)
            act == outcome.activities
        IN  /\ Len(act) = Len(row)
            /\ \A i \in DOMAIN row :
                /\ act[i].name = row[i].name
                /\ act[i].value = row[i].value
                /\ row[i].value.type = "StarValue"
                      => /\ act[i].value.type = "StarValue"
                         /\ act[i].value.minutes = row[i].value.minutes
                         /\ act[i].value.resource_count = row[i].value.resource_count
            /\ HasKey(row, "Total Ground Time")
                  => outcome.total_or_min_ground_time = Get(row, "Total Ground Time")
            /\ ~HasKey(row, "Total Ground Time") /\ HasKey(row, "Min Ground Time")
                  => outcome.total_or_min_ground_time = Get(row, "Min Ground Time")
            /\ call.args = ScenarioE
                  => /\ outcome.total_or_min_ground_time = Float(40)
                     /\ Get(act, "Cabin Cleaning").type = "StarValue"
                     /\ Get(act, "Cabin Cleaning").minutes = 10
                     /\ Get(act, "Cabin Cleaning").resource_count = 8

\* a row whose total is authored as "Min Ground Time" has been returned
C16_Witness ==
    /\ BreakdownOk
    /\ ~HasKey(outcome.activities, "Total Ground Time")
    /\ HasKey(outcome.activities, "Min Ground Time")
    /\ outcome.total_or_min_ground_time = Float(45)
    /\ \E i \in DOMAIN outcome.activities : outcome.activities[i].value.type = "StarValue"

NoBreakdown == "No activity breakdown found for "

NoMovement == "No movement '"

\* C17: lookup_activity_breakdown fails with two distinct kinds: one when no
\* breakdown is defined for the (aircraft_group, operation) pair (e.g.
\* A330/B787-9 TURNAROUND), another when the pair has a breakdown but no row
\* for the movement; the pair check is made first.
C17_TwoDistinctKinds ==
    BreakdownCall /\ outcome.status # "ok" =>
        LET key == BreakdownKey(call.args)
            mv  == BreakdownMovement(call.args)
        IN  /\ outcome.status = "KeyError"
            /\ KindOf(outcome) \in {NoBreakdown, NoMovement}
            /\ KindOf(outcome) = NoBreakdown <=> key \notin DOMAIN ACTIVITY_BREAKDOWNS
            /\ KindOf(outcome) = NoMovement
                  <=> /\ key \in DOMAIN ACTIVITY_BREAKDOWNS
                      /\ mv \notin DOMAIN ACTIVITY_BREAKDOWNS[key].movements
            /\ key = "A330/B787-9_TURNAROUND" => KindOf(outcome) = NoBreakdown

\* a pair with a breakdown asked for a movement it has no row for
C17_Witness ==
    /\ BreakdownCall
    /\ BreakdownKey(call.args) = "A330/B787-9_TRANSIT"
    /\ BreakdownMovement(call.args) = "INT-DOM"
    /\ outcome.status = "KeyError"
    /\ KindOf(outcome) = NoMovement

\* the three variants of an activity value
IsVariant(v) ==
    \/ v.type = "float"
    \/ v.type = "str" /\ v.value = "-"
    \/ v.type = "StarValue"

\* C18: in every successful result, over every key ACTIVITY_BREAKDOWNS
\* accepts (the combined/mixed entry included), each activity value is one
\* of the three variants: a plain minute count, the not-applicable marker,
\* or a resourced value.
C18_ThreeVariants ==
    BreakdownOk =>
        \A i \in DOMAIN outcome.activities : IsVariant(outcome.activities[i].value)

\* C19: lookup_delivery_before_std_hours returns the authored hours on a
\* direct hit; only when the direct lookup fails and the caller passed
\* A330/B787-9 does it return the hours of the row authored as A300/B787-9,
\* so both labels give the same value; for every other aircraft group it
\* fails.
C19_DirectThenAlias ==
    DeliveryCall =>
        LET key == DeliveryKey(call.args)
            hit == key \in DOMAIN AIRCRAFT_DELIVERY_BEFORE_STD_HOURS
        IN  /\ hit => /\ outcome.status = "ok"
                      /\ outcome.value = AIRCRAFT_DELIVERY_BEFORE_STD_HOURS[key]
            /\ ~hit /\ key = "A330/B787-9"
                  => /\ outcome.status = "ok"
                     /\ outcome.value = AIRCRAFT_DELIVERY_BEFORE_STD_HOURS["A300/B787-9"]
                     /\ outcome = Delivery([aircraft_group |-> <<"A300/B787-9">>])
            /\ ~hit /\ key # "A330/B787-9" => outcome.status = "KeyError"

\* the alias has answered with the two hours of the A300/B787-9 row
C19_Witness ==
    /\ DeliveryCall
    /\ DeliveryKey(call.args) = "A330/B787-9"
    /\ DeliveryKey(call.args) \notin DOMAIN AIRCRAFT_DELIVERY_BEFORE_STD_HOURS
    /\ outcome = [status |-> "ok", value |-> Float(2)]

---------------------------------------------------------------------------
(* Sequences of queries: the same caller, with the calls it has made and   *)
(* what each of them returned or raised kept in log                        *)

\* the most calls of one sequence
MaxCalls == 3

\* the queries a sequence is made of: successful and failing ones of each
\* resolver
SeqMgtArgs == { ScenarioA, ScenarioB, ScenarioC, ScenarioD, ScenarioF }

SeqBreakdownArgs ==
    { ScenarioE,
      [aircraft_group |-> <<"COMBINED">>, operation |-> <<"MIXED">>,
       movement |-> <<"N/A">>],
      [aircraft_group |-> <<"A330/B787-9">>, operation |-> <<"TURNAROUND">>,
       movement |-> <<"DOM-DOM">>] }

SeqDeliveryArgs ==
    { [aircraft_group |-> <<"A330/B787-9">>],
      [aircraft_group |-> <<"A300/B787-9">>],
      [aircraft_group |-> <<"B757">>] }

\* the call just made and its outcome are added to the log
Logged ==
    /\ Len(log) < MaxCalls
    /\ log' = Append(log, [call |-> call', outcome |-> outcome'])

SeqLookupMgt == CallLookupMgt(SeqMgtArgs) /\ Logged

SeqLookupActivityBreakdown == CallLookupActivityBreakdown(SeqBreakdownArgs) /\ Logged

SeqLookupDeliveryBeforeStdHours == CallLookupDeliveryBeforeStdHours(SeqDeliveryArgs) /\ Logged

SeqNext ==
    \/ SeqLookupMgt
    \/ SeqLookupActivityBreakdown
    \/ SeqLookupDeliveryBeforeStdHours
    \/ Return

SeqSpec == Init /\ [][SeqNext]_vars

\* C20: each query is independent and deterministic: in any sequence of
\* lookup_mgt, lookup_activity_breakdown and lookup_delivery_before_std_hours
\* calls, successful or failed, a call with a given input tuple yields the
\* identical result or the identical error at every position, whatever calls
\* came before it.
C20_SameInputSameOutcome ==
    \A i, j \in DOMAIN log :
        log[i].call = log[j].call => log[i].outcome = log[j].outcome

\* a delivery query answered, a failing breakdown query, and the delivery
\* query again
C20_Witness ==
    /\ Len(log) >= 3
    /\ log[1].call.fn = "lookup_delivery_before_std_hours"
    /\ log[1].outcome.status = "ok"
    /\ log[2].call.fn = "lookup_activity_breakdown"
    /\ log[2].outcome.status = "KeyError"
    /\ log[3].call = log[1].call

---------------------------------------------------------------------------
(* Behaviour of lookup_mgt that follows from its code and the authored data *)

\* the minutes an 'HH:MM' pair spells
MinutesOf(hhmm) == hhmm[1] * 60 + hhmm[2]

\* every authored LONG_HAUL_STN cell of the Turnaround table
LongHaulCells ==
    UNION { { TURNAROUND_MGT[g][m]["LONG_HAUL_STN"] :
                m \in { x \in DOMAIN TURNAROUND_MGT[g] :
                          "LONG_HAUL_STN" \in DOMAIN TURNAROUND_MGT[g][x] } } :
            g \in DOMAIN TURNAROUND_MGT }

\* C26: for operation = TURNAROUND and a destination in the USA-station
\* subset {YYZ, IAD, LAX, JFK}, the long-haul trace entry never appears and
\* adjusted_duration = max(base_duration + towing addition, 120): the
\* 120-minute floor is applied first and every authored LONG_HAUL_STN value,
\* standard or security-alert, is below it.
C26_UsaSubsetNeverLongHaul ==
    /\ UsaSubset \subseteq LongHaulSet
    /\ LongHaulCells # {}
    /\ \A c \in LongHaulCells : \A i \in DOMAIN c.cell : MinutesOf(c.cell[i]) < 120
    /\ MgtOk /\ outcome.operation = "TURNAROUND" /\ DestinationOf(call.args) \in UsaSubset
          => /\ LongHaulRule \notin Range(outcome.applied_rules)
             /\ AdjustedDuration(outcome)
                  = Max(BaseDuration(outcome)
                          + (IF TowingCase(call.args, outcome) THEN 20 ELSE 0), 120)

\* a USA-subset destination on a row that has a LONG_HAUL_STN pair, read
\* with the security-alert flag: raised to 120 by the floor, no long-haul
\* entry
C26_Witness ==
    /\ MgtOk
    /\ outcome.operation = "TURNAROUND"
    /\ DestinationOf(call.args) \in UsaSubset
    /\ LongHaulCase(call.args, outcome)
    /\ RowOf(outcome)["LONG_HAUL_STN"].is_tuple
    /\ call.args.is_security_alert_station
    /\ AdjustedDuration(outcome) = 120
    /\ outcome.applied_rules = <<UsaStationsRule, MixedFlightsNote>>

\* the dimensions of a lookup_mgt query that are invalid, each judged as far
\* as the ones before it allow
OperationValid(a) == Text(upper(strip(a.operation))) \in {"TURNAROUND", "TRANSIT"}

GroupKnown(a) ==
    \E tb \in {TURNAROUND_MGT, TRANSIT_MGT} : Text(a.aircraft_group) \in DOMAIN tb

MovementKnown(a) ==
    Text(upper(strip(a.movement))) \in {"DOM-DOM", "DOM-INTL", "INTL-DOM", "INTL-INTL"}

StationKnown(a) ==
    \E tb \in {TURNAROUND_MGT, TRANSIT_MGT} : \E g \in DOMAIN tb : \E m \in DOMAIN tb[g] :
        Text(upper(strip(a.station))) \in DOMAIN tb[g][m]

\* C27: when several dimensions of a lookup_mgt query are invalid at once,
\* the error is for the first invalid one in the order operation, aircraft
\* group, movement, station: an unsupported operation is rejected first, an
\* unknown aircraft group is reported even if the movement and station are
\* also unknown, an unknown movement even if the station is also unknown.
C27_FirstInvalidDimension ==
    call # NoCall /\ call.fn = "lookup_mgt" =>
        LET a == call.args
        IN  /\ ~OperationValid(a)
                => /\ outcome.status = "ValueError"
                   /\ KindOf(outcome) = "Unsupported operation: "
            /\ OperationValid(a) /\ ~GroupKnown(a)
                => /\ outcome.status = "KeyError"
                   /\ KindOf(outcome) = UnknownAircraftGroup
            /\ OperationValid(a) /\ GroupKnown(a) /\ ~MovementKnown(a)
                => /\ outcome.status = "KeyError"
                   /\ KindOf(outcome) = UnknownMovement

\* operation, aircraft group, movement and station all invalid at once
C27_Witness ==
    /\ call # NoCall
    /\ call.fn = "lookup_mgt"
    /\ ~OperationValid(call.args)
    /\ ~GroupKnown(call.args)
    /\ ~MovementKnown(call.args)
    /\ ~StationKnown(call.args)
    /\ outcome.status = "ValueError"

\* the canonical value a case or padding variant stands for
CanonicalPiece(p) ==
    CASE p = "turnaround" -> "TURNAROUND"
      [] p = "dom-intl"   -> "DOM-INTL"
      [] p = "jed"        -> "JED"
      [] p = "jfk"        -> "JFK"
      [] OTHER            -> p

IsText(p) == p # " "

Canonical(s) ==
    LET w == SelectSeq(s, IsText) IN [i \in DOMAIN w |-> CanonicalPiece(w[i])]

\* the query with operation, movement, station and destination canonical
CanonicalQuery(a) ==
    [a EXCEPT !.operation = Canonical(@), !.movement = Canonical(@),
              !.station = Canonical(@), !.destination_station = Canonical(@)]

IsVariantQuery(a) == CanonicalQuery(a) # a

AuthoredCells ==
    UNION { UNION { UNION { { tb[g][m][s] : s \in DOMAIN tb[g][m] } :
                            m \in DOMAIN tb[g] } :
                    g \in DOMAIN tb } :
            tb \in {TURNAROUND_MGT, TRANSIT_MGT} }

\* C29: for every fixed (operation, aircraft_group, movement, station,
\* destination, apply_local_towing_rule) that resolves, adjusted_duration
\* with is_security_alert_station true is >= adjusted_duration with it
\* false: every authored (standard, security-alert) pair has its
\* security-alert element >= its standard element, for base cells and
\* LONG_HAUL_STN cells alike.
C29_SecurityAlertNeverShorter ==
    /\ \A c \in AuthoredCells :
          c.is_tuple => MinutesOf(c.cell[2]) >= MinutesOf(c.cell[1])
    /\ MgtOk /\ ~call.args.is_security_alert_station
          => LET o == Other(WithFlag(call.args, TRUE))
             IN  /\ o.status = "ok"
                 /\ AdjustedDuration(o) >= AdjustedDuration(outcome)
                 /\ BaseDuration(o) >= BaseDuration(outcome)

\* a paired base cell whose security-alert reading is strictly longer
C29_Witness ==
    /\ MgtOk
    /\ ~call.args.is_security_alert_station
    /\ CellOf(outcome).is_tuple
    /\ AdjustedDuration(Other(WithFlag(call.args, TRUE))) > AdjustedDuration(outcome)

---------------------------------------------------------------------------
(* Frame: what the resolvers leave alone *)

\* C21: no resolver call mutates reference data: after any sequence of
\* lookup_mgt, lookup_activity_breakdown and
\* lookup_delivery_before_std_hours calls, successful or failed, the
\* Turnaround, Transit, Mixed-Flights, Activity-Breakdown and Delivery
\* tables equal their values at construction.
C21_TablesAsConstructed ==
    /\ tables.TURNAROUND_MGT = TURNAROUND_MGT
    /\ tables.TRANSIT_MGT = TRANSIT_MGT
    /\ tables.MIXED_FLIGHTS_MGT = MIXED_FLIGHTS_MGT
    /\ tables.ACTIVITY_BREAKDOWNS = ACTIVITY_BREAKDOWNS
    /\ tables.AIRCRAFT_DELIVERY_BEFORE_STD_HOURS = AIRCRAFT_DELIVERY_BEFORE_STD_HOURS

\* a sequence with a call of each resolver, failed ones among them, is over
C21_Witness ==
    /\ call = NoCall
    /\ Len(log) = 3
    /\ { log[i].call.fn : i \in DOMAIN log }
          = {"lookup_mgt", "lookup_activity_breakdown", "lookup_delivery_before_std_hours"}
    /\ \E i \in DOMAIN log : log[i].outcome.status = "KeyError"
    /\ \E i \in DOMAIN log : log[i].outcome.status = "ok"

---------------------------------------------------------------------------
(* A caller that modifies the results it holds.  The result dataclasses are *)
(* frozen, so their fields cannot be rebound, and float, str and StarValue  *)
(* values cannot be changed in place; the list and dict objects a result   *)
(* holds can.  log records the modifications made.                         *)

\* the most modifications a caller makes
MaxWrites == 2

\* the value and the list entry a caller writes
CallerValue == Float(99)

CallerEntry == "caller entry"

\* line 795: dict(row) builds a new mapping that holds the very objects the
\* row holds; a value that is itself a dict is the table's own object
SharedWithTable(v) == v.type = "dict"

\* item j of the dict under item i of the row (key, movement) set in place
TablesAfterNestedWrite(t, key, movement, i, j, v) ==
    [t EXCEPT !.ACTIVITY_BREAKDOWNS[key].movements[movement][i].value.items[j].value = v]

HoldsMgtResult == call # NoCall /\ call.fn = "lookup_mgt" /\ outcome.status = "ok"

HoldsBreakdownResult ==
    call # NoCall /\ call.fn = "lookup_activity_breakdown" /\ outcome.status = "ok"

Written(part) ==
    /\ Len(log) < MaxWrites
    /\ log' = Append(log, [fn |-> "modify", part |-> part])
    /\ UNCHANGED <<call, threads>>

\* applied_rules is the list lookup_mgt created at line 221
ModifyTrace ==
    /\ HoldsMgtResult
    /\ outcome' = [outcome EXCEPT !.applied_rules = Append(@, CallerEntry)]
    /\ UNCHANGED tables
    /\ Written("applied_rules")

\* activities is the mapping dict(row) created at line 795
ModifyActivity ==
    /\ HoldsBreakdownResult
    /\ \E i \in DOMAIN outcome.activities :
          outcome' = [outcome EXCEPT !.activities[i].value = CallerValue]
    /\ UNCHANGED tables
    /\ Written("activities")

\* a value nested in activities is changed in place
ModifyNestedValue ==
    /\ HoldsBreakdownResult
    /\ \E i \in DOMAIN outcome.activities :
          /\ outcome.activities[i].value.type = "dict"
          /\ \E j \in DOMAIN outcome.activities[i].value.items :
                /\ outcome' = [outcome EXCEPT
                                  !.activities[i].value.items[j].value = CallerValue]
                /\ tables' = IF SharedWithTable(outcome.activities[i].value)
                             THEN TablesAfterNestedWrite(
                                      tables,
                                      Text(call.args.aircraft_group) \o "_" \o outcome.operation,
                                      outcome.movement, i, j, CallerValue)
                             ELSE tables
    /\ Written("activities value")

\* assumptions and notes are the lists list(...) created at lines 797-798
ModifyAssumptions ==
    /\ HoldsBreakdownResult
    /\ outcome' = [outcome EXCEPT !.assumptions = Append(@, CallerEntry)]
    /\ UNCHANGED tables
    /\ Written("assumptions")

ModifyNotes ==
    /\ HoldsBreakdownResult
    /\ outcome' = [outcome EXCEPT !.notes = Append(@, CallerEntry)]
    /\ UNCHANGED tables
    /\ Written("notes")

CallerModifies ==
    ModifyTrace \/ ModifyActivity \/ ModifyNestedValue \/ ModifyAssumptions \/ ModifyNotes

CallerLookupMgt == CallLookupMgt(SeqMgtArgs) /\ UNCHANGED log

CallerLookupActivityBreakdown == CallLookupActivityBreakdown(SeqBreakdownArgs) /\ UNCHANGED log

CallerLookupDeliveryBeforeStdHours == CallLookupDeliveryBeforeStdHours(SeqDeliveryArgs) /\ UNCHANGED log

CallerNext ==
    \/ CallerLookupMgt
    \/ CallerLookupActivityBreakdown
    \/ CallerLookupDeliveryBeforeStdHours
    \/ ModifyTrace
    \/ ModifyActivity
    \/ ModifyNestedValue
    \/ ModifyAssumptions
    \/ ModifyNotes
    \/ Return

CallerSpec == Init /\ [][CallerNext]_vars

\* C22: every result is owned by its caller and has no back-reference into
\* the tables: modifying any part of a returned record (the rule trace, the
\* activities mapping and any value nested in it, the assumptions and notes
\* lists) leaves every reference table unchanged.
C22_ModifyingResultLeavesTables == [][CallerModifies => tables' = tables]_vars


---------------------------------------------------------------------------
(* Concurrent callers.  The resolvers take no lock, so a call of one       *)
(* caller runs as a sequence of steps between which the steps of other     *)
(* callers may run.  A step ends after each read of a module table: these  *)
(* reads are the only points at which a call touches state that another    *)
(* call can see.  The names bound before a read (op, movement, key, ...)   *)
(* are functions of the call's own arguments.                              *)

Raise(th, err) == [th EXCEPT !.pc = "done", !.result = err]

Goto(th, pc) == [th EXCEPT !.pc = pc]

Finish(th, result) == [th EXCEPT !.pc = "done", !.result = result]

\* lookup_mgt, one step per check against the table
MgtStep(th) ==
    LET a           == th.args
        op          == Text(upper(strip(a.operation)))
        movement    == Text(upper(strip(a.movement)))
        station_key == Text(upper(strip(a.station)))
        dest        == IF a.destination_station # <<>>
                       THEN Text(upper(strip(a.destination_station)))
                       ELSE None
        ac          == Text(a.aircraft_group)
        table       == IF op = "TURNAROUND" THEN tables.TURNAROUND_MGT
                                              ELSE tables.TRANSIT_MGT
    IN
    CASE th.pc = "mgt_operation" ->
             IF op \notin {"TURNAROUND", "TRANSIT"}
             THEN Raise(th, ValueError(<<"Unsupported operation: ", Text(a.operation)>>))
             ELSE Goto(th, "mgt_aircraft_group")
      [] th.pc = "mgt_aircraft_group" ->
             IF ac \notin DOMAIN table
             THEN Raise(th, KeyError(<<"Unknown aircraft_group: ", ac>>))
             ELSE Goto(th, "mgt_movement")
      [] th.pc = "mgt_movement" ->
             IF movement \notin DOMAIN table[ac]
             THEN Raise(th, KeyError(<<"Unknown movement '", movement,
                                       "' for aircraft_group '", ac, "'">>))
             ELSE Goto(th, "mgt_station")
      [] th.pc = "mgt_station" ->
             IF station_key \notin DOMAIN table[ac][movement]
             THEN Raise(th, KeyError(<<"Unknown station '", station_key, "' for op=", op,
                                       ", aircraft_group=", ac, ", movement=", movement>>))
             ELSE Goto(th, "mgt_rules")
      [] th.pc = "mgt_rules" ->
             LET row       == table[ac][movement]
                 base_cell == row[station_key]
                 base_hhmm == _pick_mgt_cell(base_cell, a.is_security_alert_station)
                 run0 == Running(_to_minutes_from_hhmm(base_hhmm), <<>>)
                 run1 == ApplyTowing(run0, a.apply_local_towing_rule, movement, station_key)
                 run2 == ApplyDestinationRules(run1, op, row, dest, a.is_security_alert_station)
                 adjusted_hhmm == _to_hhmm_from_minutes(run2.adjusted_minutes)
                 run3 == AppendMixedFlightsNote(run2, op)
             IN  Finish(th, MGTLookupResult(op, ac, movement, station_key,
                                            base_hhmm, adjusted_hhmm, run3.applied))

\* lookup_activity_breakdown, one step per read of ACTIVITY_BREAKDOWNS
BreakdownStep(th) ==
    LET a        == th.args
        op       == Text(upper(strip(a.operation)))
        movement == Text(upper(strip(a.movement)))
        ac       == Text(a.aircraft_group)
        key      == ac \o "_" \o op
    IN
    CASE th.pc = "breakdown_key" ->
             IF key \notin DOMAIN tables.ACTIVITY_BREAKDOWNS
             THEN Raise(th, NoBreakdownError(ac, op))
             ELSE Goto(th, "breakdown_movement")
      [] th.pc = "breakdown_movement" ->
             IF movement \notin DOMAIN tables.ACTIVITY_BREAKDOWNS[key].movements
             THEN Raise(th, NoMovementError(movement, ac, op))
             ELSE Goto(th, "breakdown_row")
      [] th.pc = "breakdown_row" ->
             LET blob == tables.ACTIVITY_BREAKDOWNS[key]
                 row  == blob.movements[movement]
             IN  Finish(th, ActivityBreakdownResult(ac, op, movement, dict(row), TotalOrMin(row),
                                                    list(blob.assumptions), list(blob.notes)))

\* lookup_delivery_before_std_hours: the membership test and the subscript
\* are two reads of the table
DeliveryStep(th) ==
    LET key == Text(strip(th.args.aircraft_group))
        t   == tables.AIRCRAFT_DELIVERY_BEFORE_STD_HOURS
    IN
    CASE th.pc = "delivery_key" ->
             IF key \in DOMAIN t THEN Goto(th, "delivery_direct")
             ELSE IF key = "A330/B787-9" THEN Goto(th, "delivery_alias")
             ELSE Raise(th, KeyError(<<"No delivery time found for aircraft_group '",
                                       Text(th.args.aircraft_group), "'">>))
      [] th.pc = "delivery_direct" -> Finish(th, [status |-> "ok", value |-> t[key]])
      [] th.pc = "delivery_alias"  -> Finish(th, [status |-> "ok", value |-> t[DeliveryAliasRow]])

InProgress(c) == threads[c].pc \notin {"idle", "done"}

\* a caller enters a resolver
Enter(c, fn, pc, A) ==
    /\ threads[c].pc = "idle"
    /\ \E a \in A :
        threads' = [threads EXCEPT ![c] = [pc |-> pc, fn |-> fn, args |-> a,
                                           result |-> IdleThread.result]]
    /\ UNCHANGED <<call, outcome, tables, log>>

EnterLookupMgt ==
    \E c \in Callers : Enter(c, "lookup_mgt", "mgt_operation", SeqMgtArgs)

EnterLookupActivityBreakdown ==
    \E c \in Callers : Enter(c, "lookup_activity_breakdown", "breakdown_key", SeqBreakdownArgs)

EnterLookupDeliveryBeforeStdHours ==
    \E c \in Callers : Enter(c, "lookup_delivery_before_std_hours", "delivery_key", SeqDeliveryArgs)

StepLookupMgt ==
    \E c \in Callers :
        /\ InProgress(c) /\ threads[c].fn = "lookup_mgt"
        /\ threads' = [threads EXCEPT ![c] = MgtStep(@)]
        /\ UNCHANGED <<call, outcome, tables, log>>

StepLookupActivityBreakdown ==
    \E c \in Callers :
        /\ InProgress(c) /\ threads[c].fn = "lookup_activity_breakdown"
        /\ threads' = [threads EXCEPT ![c] = BreakdownStep(@)]
        /\ UNCHANGED <<call, outcome, tables, log>>

StepLookupDeliveryBeforeStdHours ==
    \E c \in Callers :
        /\ InProgress(c) /\ threads[c].fn = "lookup_delivery_before_std_hours"
        /\ threads' = [threads EXCEPT ![c] = DeliveryStep(@)]
        /\ tables' = [tables EXCEPT !.AIRCRAFT_DELIVERY_BEFORE_STD_HOURS =
                          DeliveryTableAfter(@, Text(strip(threads[c].args.aircraft_group)))]
        /\ UNCHANGED <<call, outcome, log>>

\* the caller takes the result or the error and is free to call again
Leave ==
    \E c \in Callers :
        /\ threads[c].pc = "done"
        /\ threads' = [threads EXCEPT ![c] = IdleThread]
        /\ UNCHANGED <<call, outcome, tables, log>>

ConcNext ==
    \/ EnterLookupMgt
    \/ EnterLookupActivityBreakdown
    \/ EnterLookupDeliveryBeforeStdHours
    \/ StepLookupMgt
    \/ StepLookupActivityBreakdown
    \/ StepLookupDeliveryBeforeStdHours
    \/ Leave

ConcSpec == Init /\ [][ConcNext]_vars

\* what the call of a caller returns when no other call is in progress
Alone(th) ==
    CASE th.fn = "lookup_mgt" -> Resolve(th.args)
      [] th.fn = "lookup_activity_breakdown" -> Breakdown(th.args)
      [] th.fn = "lookup_delivery_before_std_hours" -> Delivery(th.args)

\* C23: whatever the interleaving of the steps of concurrent resolver calls,
\* every finished call holds the result or the error that the same call
\* returns when it runs alone, and every table equals its constructed value.
C23_ConcurrentCallsAsAlone ==
    /\ \A c \in Callers :
           threads[c].pc = "done" => threads[c].result = Alone(threads[c])
    /\ tables = AuthoredTables

\* two calls of the same resolver overlapped: the first caller has its
\* result while the second, which missed the table, has its error
C23_Witness ==
    /\ threads[1].pc = "done" /\ threads[2].pc = "done"
    /\ threads[1].fn = "lookup_delivery_before_std_hours"
    /\ threads[2].fn = "lookup_delivery_before_std_hours"
    /\ threads[1].result.status = "ok"
    /\ threads[2].result.status = "KeyError"


---------------------------------------------------------------------------
(* The caller of the resolvers (src/nxs_brain.py).  A message is a Python  *)
(* str, here the sequence of its characters.  An Arabic word of the source *)
(* is one symbol: the messages below contain such a word whole or not at   *)
(* all.  A regular expression is the set of its alternatives, each a       *)
(* sequence of characters and of the three operators the source uses.      *)

\* the Arabic words of the source, by transliteration
AR ==
    [dakhili |-> "<dakhili>",
     dawli |-> "<dawli>",
     turnarawnd |-> "<turnarawnd>",
     tranzit |-> "<tranzit>",
     tranzt |-> "<tranzt>",
     tafsil |-> "<tafsil>",
     tafasil |-> "<tafasil>",
     bunud |-> "<bunud>",
     band |-> "<band>",
     taslim |-> "<taslim>",
     qabl |-> "<qabl>"]

ArabicWords == { AR[w] : w \in DOMAIN AR }

\* the operators \b, \s* and .* of a pattern
WordBoundary == "<\\b>"

AnySpaces == "<\\s*>"

AnyChars == "<.*>"

LowerLetters == <<"a", "b", "c", "d", "e", "f", "g", "h", "i", "j", "k", "l", "m", "n", "o", "p", "q", "r", "s", "t", "u", "v", "w", "x", "y", "z">>

UpperLetters == <<"A", "B", "C", "D", "E", "F", "G", "H", "I", "J", "K", "L", "M", "N", "O", "P", "Q", "R", "S", "T", "U", "V", "W", "X", "Y", "Z">>

UpperChar(c) ==
    IF c \in Range(LowerLetters)
    THEN UpperLetters[CHOOSE i \in DOMAIN LowerLetters : LowerLetters[i] = c]
    ELSE c

LowerChar(c) ==
    IF c \in Range(UpperLetters)
    THEN LowerLetters[CHOOSE i \in DOMAIN UpperLetters : UpperLetters[i] = c]
    ELSE c

\* str.upper and str.lower
str_upper(m) == [i \in 1..Len(m) |-> UpperChar(m[i])]

str_lower(m) == [i \in 1..Len(m) |-> LowerChar(m[i])]

\* str.replace of one character by a string
RECURSIVE replace(_, _, _)
replace(m, old, new) ==
    IF m = <<>> THEN <<>>
    ELSE (IF Head(m) = old THEN new ELSE <<Head(m)>>) \o replace(Tail(m), old, new)

\* a character that \w matches
IsWordChar(c) ==
    \/ c \in Range(LowerLetters) \cup Range(UpperLetters) \cup ArabicWords
    \/ c \in { "0", "1", "2", "3", "4", "5", "6", "7", "8", "9", "_" }

\* \b at the position before s[j]
AtWordBoundary(s, j) ==
    LET before == j - 1 \in 1..Len(s) /\ IsWordChar(s[j - 1])
        after  == j \in 1..Len(s) /\ IsWordChar(s[j])
    IN  before # after

\* the pattern from its i-th element on matches s from position j on
RECURSIVE MatchAt(_, _, _, _)
MatchAt(pat, i, s, j) ==
    IF i > Len(pat) THEN TRUE
    ELSE IF pat[i] = WordBoundary THEN AtWordBoundary(s, j) /\ MatchAt(pat, i + 1, s, j)
    ELSE IF pat[i] = AnySpaces
    THEN \/ MatchAt(pat, i + 1, s, j)
         \/ j <= Len(s) /\ s[j] = " " /\ MatchAt(pat, i, s, j + 1)
    ELSE IF pat[i] = AnyChars
    THEN \/ MatchAt(pat, i + 1, s, j)
         \/ j <= Len(s) /\ MatchAt(pat, i, s, j + 1)
    ELSE j <= Len(s) /\ s[j] = pat[i] /\ MatchAt(pat, i + 1, s, j + 1)

\* re.search(rx, s) finds a match
re_search(rx, s) == \E pat \in rx : \E j \in 1..(Len(s) + 1) : MatchAt(pat, 1, s, j)

\* re.search with re.I
re_search_I(rx, s) == re_search({ str_lower(pat) : pat \in rx }, str_lower(s))

\* sub in s
Contains(s, sub) == re_search({ sub }, s)

\* variant: the rules module also defines the getter that nxs_brain imports
GopmRulesExports_WithDeliveryGetter ==
    { "A321_TRANSIT", "A321_TURNAROUND", "A330_TRANSIT",
      "ACTIVITY_BREAKDOWNS", "AIRCRAFT_DELIVERY_BEFORE_STD_HOURS",
      "ActivityBreakdownResult", "B757_TRANSIT", "B757_TURNAROUND",
      "B777_TRANSIT", "B777_TURNAROUND", "COMBINED_MIXED_FLIGHTS",
      "LOCAL_TOWING_ADD_MINUTES", "LONG_HAUL_STATIONS", "MGTCell",
      "MGTLookupResult", "MIXED_FLIGHTS_MGT", "StarValue", "TRANSIT_MGT",
      "TURNAROUND_MGT", "TURNAROUND_MIN_TO_ALL_USA_STATIONS_MINUTES",
      "TURNAROUND_MIN_TO_KAN_MINUTES", "TURNAROUND_MIN_TO_SSH_MINUTES",
      "TURNAROUND_MIN_TO_USA_MINUTES", "USA_STATIONS_IN_HINT_LIST",
      "_pick_mgt_cell", "_sv", "_to_hhmm_from_minutes",
      "_to_minutes_from_hhmm", "lookup_activity_breakdown",
      "lookup_delivery_before_std_hours", "lookup_mgt",
      "get_aircraft_delivery_before_std_hours" }

\* the names that nxs_gopm_rules defines at module level (the names it imports
\* from typing and dataclasses are not among the three that nxs_brain asks for)
GopmRulesExports ==
    { "A321_TRANSIT", "A321_TURNAROUND", "A330_TRANSIT",
      "ACTIVITY_BREAKDOWNS", "AIRCRAFT_DELIVERY_BEFORE_STD_HOURS",
      "ActivityBreakdownResult", "B757_TRANSIT", "B757_TURNAROUND",
      "B777_TRANSIT", "B777_TURNAROUND", "COMBINED_MIXED_FLIGHTS",
      "LOCAL_TOWING_ADD_MINUTES", "LONG_HAUL_STATIONS", "MGTCell",
      "MGTLookupResult", "MIXED_FLIGHTS_MGT", "StarValue", "TRANSIT_MGT",
      "TURNAROUND_MGT", "TURNAROUND_MIN_TO_ALL_USA_STATIONS_MINUTES",
      "TURNAROUND_MIN_TO_KAN_MINUTES", "TURNAROUND_MIN_TO_SSH_MINUTES",
      "TURNAROUND_MIN_TO_USA_MINUTES", "USA_STATIONS_IN_HINT_LIST",
      "_pick_mgt_cell", "_sv", "_to_hhmm_from_minutes",
      "_to_minutes_from_hhmm", "lookup_activity_breakdown",
      "lookup_delivery_before_std_hours", "lookup_mgt" }

\* lines 1356-1360: the names of the one import statement
ImportedNames == { "lookup_mgt", "lookup_activity_breakdown", "get_aircraft_delivery_before_std_hours" }

\* lines 1355-1364: a from-import binds its names or raises ImportError at
\* the first missing one; the handler then binds all three to None
GuardedImport(exports) ==
    IF ImportedNames \subseteq exports
    THEN [name \in ImportedNames |-> name]
    ELSE [name \in ImportedNames |-> None]

\* the three module globals of nxs_brain; nothing assigns them afterwards
BrainGlobals == GuardedImport(GopmRulesExports)

\* lines 1368-1373
_AIRCRAFT_ALIASES ==
    << [rx |-> { <<WordBoundary, "B", "7", "7", "7", WordBoundary>>,
               <<"7", "7", "7">>,
               <<"B", "7", "8", "7", "-", "1", "0">>,
               <<"7", "8", "7", "-", "1", "0">>,
               <<"B", "7", "8", "7", AnySpaces, "1", "0">> },
        group |-> "B777-368/B787-10"],
       [rx |-> { <<"A", "3", "3", "0">>,
                        <<"7", "8", "7", "-", "9">>,
               <<"B", "7", "8", "7", AnySpaces, "9">> },
        group |-> "A330/B787-9"],
       [rx |-> { <<"A", "3", "2", "1">>,
               <<"A", "3", "2", "0">> },
        group |-> "A321/A320"],
       [rx |-> { <<"B", "7", "5", "7">>,
               <<"7", "5", "7">> },
        group |-> "B757"] >>

\* lines 1396-1402
_extract_operation(message) ==
    LET m == str_lower(message)
    IN  IF \/ Contains(m, <<"t", "u", "r", "n", "a", "r", "o", "u", "n", "d">>)
           \/ Contains(m, <<AR.turnarawnd>>)
           \/ Contains(m, <<"t", "u", "r", "n", " ", "a", "r", "o", "u", "n", "d">>)
        THEN "TURNAROUND"
        ELSE IF \/ Contains(m, <<"t", "r", "a", "n", "s", "i", "t">>)
                \/ Contains(m, <<AR.tranzit>>)
                \/ Contains(m, <<AR.tranzt>>)
        THEN "TRANSIT"
        ELSE None

MovementNames == <<"DOM-DOM", "DOM-INTL", "INTL-DOM", "INTL-INTL">>

MovementChars ==
    << <<"D", "O", "M", "-", "D", "O", "M">>,
       <<"D", "O", "M", "-", "I", "N", "T", "L">>,
       <<"I", "N", "T", "L", "-", "D", "O", "M">>,
       <<"I", "N", "T", "L", "-", "I", "N", "T", "L">> >>

\* lines 1404-1414
_extract_movement(message) ==
    LET m    == replace(replace(str_upper(message), " ", <<>>), "_", <<"-">>)
        hits == { k \in DOMAIN MovementChars : Contains(m, MovementChars[k]) }
    IN  IF hits # {}
        THEN MovementNames[CHOOSE k \in hits : \A h \in hits : k <= h]
        ELSE IF Contains(message, <<AR.dakhili>>) /\ Contains(message, <<AR.dawli>>)
        THEN IF re_search({ <<AR.dakhili, AnyChars, AR.dawli>> }, message) THEN "DOM-INTL"
             ELSE IF re_search({ <<AR.dawli, AnyChars, AR.dakhili>> }, message) THEN "INTL-DOM"
             ELSE None
        ELSE None

\* the groups whose pattern finds a match in the message
MatchingAliases(message) ==
    { k \in DOMAIN _AIRCRAFT_ALIASES : re_search_I(_AIRCRAFT_ALIASES[k].rx, message) }

\* lines 1416-1420: the group of the first pattern of the list that matches
_extract_aircraft_group(message) ==
    LET hits == MatchingAliases(message)
    IN  IF hits = {} THEN None
        ELSE _AIRCRAFT_ALIASES[CHOOSE k \in hits : \A h \in hits : k <= h].group

StationCodes == <<"JED", "RUH", "DMM", "MED", "LHR", "UK">>

StationCodeChars ==
    << <<"J", "E", "D">>, <<"R", "U", "H">>, <<"D", "M", "M">>, <<"M", "E", "D">>, <<"L", "H", "R">>, <<"U", "K">> >>

\* lines 1422-1435
_extract_station(message) ==
    LET m    == str_upper(message)
        hits == { k \in DOMAIN StationCodeChars :
                    re_search({ <<WordBoundary>> \o StationCodeChars[k] \o <<WordBoundary>> }, m) }
    IN  IF Contains(m, <<"L", "O", "N", "G", " ", "H", "A", "U", "L">>) \/ Contains(m, <<"L", "O", "N", "G", "_", "H", "A", "U", "L">>)
        THEN "LONG_HAUL_STN"
        ELSE IF Contains(m, <<"I", "N", "T", " ", "S", "T", "N", "S">>) \/ Contains(m, <<"I", "N", "T", "_", "S", "T", "N", "S">>)
        THEN "INT_STNS"
        ELSE IF Contains(m, <<"O", "T", "H", "E", "R", " ", "D", "O", "M">>) \/ Contains(m, <<"O", "T", "H", "E", "R", "_", "D", "O", "M">>)
        THEN "OTHER_DOM_STN"
        ELSE IF \/ Contains(m, <<"A", "H", "B", "/", "T", "U", "U">>)
                \/ re_search({ <<WordBoundary, "A", "H", "B", WordBoundary>> }, m)
                \/ re_search({ <<WordBoundary, "T", "U", "U", WordBoundary>> }, m)
        THEN "AHB/TUU"
        ELSE IF hits # {}
        THEN StationCodes[CHOOSE k \in hits : \A h \in hits : k <= h]
        ELSE None

\* line 1479
wants_activity(message) ==
    re_search_I({ <<"a", "c", "t", "i", "v", "i", "t", "y", AnySpaces, "b", "r", "e", "a", "k", "d", "o", "w", "n">>,
                  <<"a", "c", "t", "i", "v", "i", "t", "i", "e", "s">>,
                  <<AR.tafsil>>,
                  <<AR.tafasil>>,
                  <<AR.bunud>>,
                  <<AR.band>> }, message)

\* line 1480
wants_delivery(message) ==
    re_search_I({ <<"d", "e", "l", "i", "v", "e", "r", "y", AnySpaces, "t", "i", "m", "e">>,
                  <<"b", "e", "f", "o", "r", "e", AnySpaces, "s", "t", "d">>,
                  <<"A", "i", "r", "c", "r", "a", "f", "t", AnySpaces, "D", "e", "l", "i", "v", "e", "r", "y">>,
                  <<AR.taslim>>,
                  <<AR.qabl, AnySpaces, "s", "t", "d">> }, message)

\* lines 1472-1480 and 1486-1496, the parameters that decide which resolver
\* is called
Parsed(message) ==
    [operation      |-> _extract_operation(message),
     movement       |-> _extract_movement(message),
     aircraft_group |-> _extract_aircraft_group(message),
     station        |-> _extract_station(message),
     wants_activity |-> wants_activity(message),
     wants_delivery |-> wants_delivery(message)]

\* lines 1499-1586: the resolver that the parsed parameters lead to, None
\* where the reply asks for a missing parameter
ResolverReached(p) ==
    IF p.wants_delivery
    THEN IF p.aircraft_group = None THEN None ELSE "get_aircraft_delivery_before_std_hours"
    ELSE IF p.wants_activity
    THEN IF p.aircraft_group = None \/ p.operation = None \/ p.movement = None
         THEN None ELSE "lookup_activity_breakdown"
    ELSE IF p.operation = None \/ p.movement = None \/ p.aircraft_group = None \/ p.station = None
    THEN None ELSE "lookup_mgt"

\* lines 1462-1624: the meta of the reply, with the resolver the call went
\* on to
_gopm_answer(message) ==
    IF BrainGlobals["lookup_mgt"] = None
    THEN [ok |-> FALSE, stage |-> "gopm_missing_rules", parsed |-> None, resolver |-> None]
    ELSE LET p == Parsed(message)
         IN  [ok |-> TRUE, stage |-> "gopm_answer", parsed |-> p, resolver |-> ResolverReached(p)]

\* the longest message, in words
MaxWords == 2

Vocabulary ==
    { <<"B", "7", "7", "7">>,
      <<"a", "3", "2", "0">>,
      <<"A", "3", "3", "0">>,
      <<"B", "7", "8", "7", "-", "9">>,
      <<"B", "7", "8", "7">>,
      <<"1", "0">>,
      <<"A", "H", "B">>,
      <<"A", "H", "B", "/", "T", "U", "U">>,
      <<"J", "E", "D">>,
      <<"U", "K">>,
      <<"L", "O", "N", "G">>,
      <<"H", "A", "U", "L">>,
      <<"d", "o", "m", "-", "d", "o", "m">>,
      <<"D", "O", "M", "_", "I", "N", "T", "L">>,
      <<"t", "u", "r", "n", "a", "r", "o", "u", "n", "d">>,
      <<"t", "r", "a", "n", "s", "i", "t">>,
      <<"a", "c", "t", "i", "v", "i", "t", "y">>,
      <<"b", "r", "e", "a", "k", "d", "o", "w", "n">>,
      <<"d", "e", "l", "i", "v", "e", "r", "y">>,
      <<"t", "i", "m", "e">>,
      <<AR.dakhili>>,
      <<AR.dawli>> }

RECURSIVE Join(_)
Join(ws) ==
    IF ws = <<>> THEN <<>>
    ELSE IF Len(ws) = 1 THEN ws[1]
    ELSE ws[1] \o <<" ">> \o Join(Tail(ws))

\* questions that name everything a resolver needs
SampleQuestions ==
    { <<<<"t", "u", "r", "n", "a", "r", "o", "u", "n", "d">>, <<"d", "o", "m", "-", "d", "o", "m">>, <<"B", "7", "7", "7">>, <<"J", "E", "D">>>>,
      <<<<"a", "c", "t", "i", "v", "i", "t", "y">>, <<"b", "r", "e", "a", "k", "d", "o", "w", "n">>, <<"t", "r", "a", "n", "s", "i", "t">>, <<"a", "3", "2", "0", " ", "D", "O", "M", "_", "I", "N", "T", "L">>>>,
      <<<<"d", "e", "l", "i", "v", "e", "r", "y">>, <<"t", "i", "m", "e">>, <<"A", "3", "3", "0">>>> }

\* the messages: up to MaxWords words separated by one space, and the sample
\* questions
Messages ==
    { Join(ws) : ws \in UNION { [1..n -> Vocabulary] : n \in 0..MaxWords } \cup SampleQuestions }

CallBrain(fn, message, result) ==
    /\ call' = [fn |-> fn, args |-> [message |-> message]]
    /\ outcome' = result
    /\ UNCHANGED <<tables, log, threads>>

ExtractOperation ==
    call = NoCall /\ \E m \in Messages : CallBrain("_extract_operation", m, _extract_operation(m))

ExtractMovement ==
    call = NoCall /\ \E m \in Messages : CallBrain("_extract_movement", m, _extract_movement(m))

ExtractAircraftGroup ==
    call = NoCall /\ \E m \in Messages : CallBrain("_extract_aircraft_group", m, _extract_aircraft_group(m))

ExtractStation ==
    call = NoCall /\ \E m \in Messages : CallBrain("_extract_station", m, _extract_station(m))

GopmAnswer ==
    call = NoCall /\ \E m \in Messages : CallBrain("_gopm_answer", m, _gopm_answer(m))

BrainNext ==
    \/ ExtractOperation
    \/ ExtractMovement
    \/ ExtractAircraftGroup
    \/ ExtractStation
    \/ GopmAnswer
    \/ Return

BrainSpec == Init /\ [][BrainNext]_vars

Called(fn) == call # NoCall /\ call.fn = fn

\* C24: aircraft-group resolution of a message that matches two or more
\* canonical aircraft groups surfaces the ambiguity: it does not answer with
\* one of the groups.
C24_AmbiguitySurfaced ==
    (Called("_extract_aircraft_group") /\ Cardinality(MatchingAliases(call.args.message)) >= 2)
        => outcome \notin { _AIRCRAFT_ALIASES[k].group : k \in DOMAIN _AIRCRAFT_ALIASES }

\* the column keys of an MGT table
ColumnsOf(t) == UNION { UNION { DOMAIN t[g][mv] : mv \in DOMAIN t[g] } : g \in DOMAIN t }

StationColumns == ColumnsOf(TURNAROUND_MGT) \cup ColumnsOf(TRANSIT_MGT)

\* g is a row key of a reference table; a row of ACTIVITY_BREAKDOWNS has the
\* key that line 772 of nxs_gopm_rules builds from the group and the operation
IsAircraftGroupRow(g) ==
    \/ g \in DOMAIN TURNAROUND_MGT \cup DOMAIN TRANSIT_MGT
    \/ g \in DOMAIN AIRCRAFT_DELIVERY_BEFORE_STD_HOURS
    \/ \E op \in {"TURNAROUND", "TRANSIT", "MIXED"} : (g \o "_" \o op) \in DOMAIN ACTIVITY_BREAKDOWNS

\* C25: every key that the caller's extraction returns is a key the tables
\* use: a station is a column key of the Turnaround or the Transit MGT table,
\* an aircraft group is a row key of a reference table, a movement is one of
\* DOM-DOM, DOM-INTL, INTL-DOM, INTL-INTL.
C25_ReturnedKeysCanonical ==
    /\ (Called("_extract_station") /\ outcome # None) => outcome \in StationColumns
    /\ (Called("_extract_aircraft_group") /\ outcome # None) => IsAircraftGroupRow(outcome)
    /\ (Called("_extract_movement") /\ outcome # None) => outcome \in Range(MovementNames)

\* C30: the guarded import leaves the three resolver names None, and every
\* call of _gopm_answer returns ok = False with stage gopm_missing_rules, with
\* no parameter extracted and no resolver called.
C30_FastPathNeverReachesResolver ==
    /\ \A name \in ImportedNames : BrainGlobals[name] = None
    /\ Called("_gopm_answer") =>
           /\ outcome.ok = FALSE
           /\ outcome.stage = "gopm_missing_rules"
           /\ outcome.parsed = None
           /\ outcome.resolver = None

\* _gopm_answer answered a message that names an operation, a movement, an
\* aircraft group and a station
C30_Witness ==
    /\ Called("_gopm_answer")
    /\ outcome.stage = "gopm_missing_rules"
    /\ ResolverReached(Parsed(call.args.message)) = "lookup_mgt"

====
